---- MODULE Spec2Model ----
(***************************************************************************)
(* A model of the framework self-update subsystem of hg-agent-fwk:        *)
(*   graal/framework_manager.py  (FrameworkManager, UpdateResult)         *)
(*   graal/migration_manager.py  (MigrationManager, the migration catalog) *)
(*                                                                         *)
(* Text is modelled as sequences.  A version string or the lock file's    *)
(* content is a sequence of one-character strings; the dependency        *)
(* manifest is the sequence of its lines (content.split('\n')), a line a  *)
(* sequence of tokens; app/main.py is a sequence of source tokens chosen  *)
(* so that every match of a catalog regex begins and ends on a token      *)
(* boundary.                                                               *)
(***************************************************************************)
EXTENDS Integers, Sequences, FiniteSets, TLC

(***************************************************************************)
(* Bounds of the model.                                                    *)
(***************************************************************************)
\* update_framework calls started in one behaviour
MaxCalls == 2
\* the clock (whole seconds, as strftime("%Y%m%d_%H%M%S") sees it) runs 0..MaxTime
MaxTime == 1
\* longest app/main.py (in tokens) the migration specification starts from
MaxLen == 3
\* direct apply_migration invocations in one behaviour of the migration specification
MaxRuns == 2
\* the tags the remote tag listing holds at most
MaxTags == 3
\* the /chat requests
MaxReqs == 2
\* the readings of the clock the /chat handler takes
MaxClock == 2

\* an Optional value: None is <<>>, the value x is <<x>>
None == <<>>
Some(x) == <<x>>

(***************************************************************************)
(* Strings.                                                                *)
(***************************************************************************)
Whitespace == {" ", "\n", "\t"}

RECURSIVE lstrip(_, _)
\* str.lstrip(chars): drop every leading character that is in chars
lstrip(s, chars) ==
    IF s # <<>> /\ Head(s) \in chars THEN lstrip(Tail(s), chars) ELSE s

RECURSIVE rstrip(_, _)
\* str.rstrip(chars)
rstrip(s, chars) ==
    IF s # <<>> /\ s[Len(s)] \in chars
    THEN rstrip(SubSeq(s, 1, Len(s) - 1), chars)
    ELSE s

\* str.strip(): both ends, whitespace
strip(s) == rstrip(lstrip(s, Whitespace), Whitespace)

\* str.startswith(c) for a one-character prefix
startswith(s, c) == s # <<>> /\ Head(s) = c

V100 == <<"1", ".", "0", ".", "0">>
V110 == <<"1", ".", "1", ".", "0">>
V120 == <<"1", ".", "2", ".", "0">>
V130 == <<"1", ".", "3", ".", "0">>
Unknown == <<"u", "n", "k", "n", "o", "w", "n">>

(***************************************************************************)
(* Files of the agent root.  A file is absent, a text file (data is its   *)
(* decoded content) or holds bytes read_text() cannot decode ("binary").  *)
(***************************************************************************)
MAIN == "app/main.py"
REQ == "requirements.txt"
LOCK == "framework.lock"
DOC == "CLAUDE.md"
FileNames == {MAIN, REQ, LOCK, DOC}

\* data is what read_text() returns (universal newlines: "\r\n" read as "\n");
\* crlf tells that the bytes on disk end their lines with "\r\n"
Absent == [kind |-> "absent", data |-> <<>>, crlf |-> FALSE]
Binary == [kind |-> "binary", data |-> <<>>, crlf |-> FALSE]
Text(d) == [kind |-> "text", data |-> d, crlf |-> FALSE]
TextCRLF(d) == [kind |-> "text", data |-> d, crlf |-> TRUE]

\* Path.read_text() of a readable file, and the file Path.write_text(d) leaves:
\* the text is written with "\n" line ends whatever the file read had
read_text(f) == f.data
write_text(d) == Text(d)

exists(f) == f.kind # "absent"

(***************************************************************************)
(* Source tokens of app/main.py.                                           *)
(***************************************************************************)
tADP == "async def process"
tMSG == "_message"
tLP == "("
tRP == ")"
tSIG == "self, message: str, context: Dict[str, Any]"
tUID == ", user_id: Optional[str] = None, conversation_id: Optional[str] = None"
tWS == " "
tCFG == "AgentConfig"
tPORT == "port="
tDIG == "8"
tSRV == "server_"
tTYPE == ",\n        agent_type=\"conversational\"\n    "

\* the tokens a 1.0.0-era agent source is made of, and those of a 1.2.0-era one
ProcessTokens == {tADP, tMSG, tLP, tRP, tSIG, tUID, tWS}
ConfigTokens == {tCFG, tLP, tRP, tPORT, tDIG, tSRV, tTYPE}
Tokens == ProcessTokens \cup ConfigTokens

(***************************************************************************)
(* The four regular expressions of the catalog, and re.sub.               *)
(* MatchLen(p, s, i) is the length of the match of p that starts at       *)
(* position i of s, 0 when there is none (no pattern matches empty).      *)
(***************************************************************************)
RECURSIVE Run(_, _, _)
\* number of consecutive tokens of s from position i that are in set
Run(s, i, set) ==
    IF i <= Len(s) /\ s[i] \in set THEN 1 + Run(s, i + 1, set) ELSE 0

At(s, i) == IF i >= 1 /\ i <= Len(s) THEN s[i] ELSE "<eof>"

\* mutant: the pattern without its \( , so a renamed method matches again
MatchProcessNoParen(s, i) ==
    IF At(s, i) = tADP THEN 1 ELSE 0

\* async def process\(
MatchProcess(s, i) ==
    IF At(s, i) = tADP /\ At(s, i + 1) = tLP THEN 2 ELSE 0

\* async def process_message\(\s*self,\s*message: str,\s*context: Dict\[str, Any\]\s*\)
MatchSignature(s, i) ==
    IF At(s, i) = tADP /\ At(s, i + 1) = tMSG /\ At(s, i + 2) = tLP
    THEN LET w1 == Run(s, i + 3, {tWS})
             j == i + 3 + w1
             w2 == Run(s, j + 1, {tWS})
         IN  IF At(s, j) = tSIG /\ At(s, j + 1 + w2) = tRP
             THEN 3 + w1 + 1 + w2 + 1
             ELSE 0
    ELSE 0

\* port=(\d+)
MatchPort(s, i) ==
    IF At(s, i) = tPORT /\ Run(s, i + 1, {tDIG}) >= 1
    THEN 1 + Run(s, i + 1, {tDIG})
    ELSE 0

\* (AgentConfig\([^)]+)\)
MatchConfig(s, i) ==
    IF At(s, i) = tCFG /\ At(s, i + 1) = tLP
    THEN LET n == Run(s, i + 2, Tokens \ {tRP})
         IN  IF n >= 1 /\ At(s, i + 2 + n) = tRP THEN 2 + n + 1 ELSE 0
    ELSE 0

MatchLen(p, s, i) ==
    CASE p = "async def process\\(" -> MatchProcess(s, i)
      [] p = "async def process_message\\(\\s*self,\\s*message: str,\\s*context: Dict\\[str, Any\\]\\s*\\)"
           -> MatchSignature(s, i)
      [] p = "port=(\\d+)" -> MatchPort(s, i)
      [] p = "(AgentConfig\\([^)]+)\\)" -> MatchConfig(s, i)

\* the expansion of replacement template r for the match of length m at i
Expand(r, s, i, m) ==
    CASE r = "async def process_message(" -> <<tADP, tMSG, tLP>>
      [] r = "async def process_message(self, message: str, context: Dict[str, Any], user_id: Optional[str] = None, conversation_id: Optional[str] = None)"
           -> <<tADP, tMSG, tLP, tSIG, tUID, tRP>>
      [] r = "server_port=\\1" -> <<tSRV, tPORT>> \o SubSeq(s, i + 1, i + m - 1)
      [] r = "\\1,\n        agent_type=\"conversational\"\n    )"
           -> SubSeq(s, i, i + m - 2) \o <<tTYPE, tRP>>

RECURSIVE SubFrom(_, _, _, _)
\* re.sub from position i on: leftmost matches, left to right, not overlapping
SubFrom(p, r, s, i) ==
    IF i > Len(s) THEN <<>>
    ELSE LET m == MatchLen(p, s, i)
         IN  IF m > 0
             THEN Expand(r, s, i, m) \o SubFrom(p, r, s, i + m)
             ELSE <<s[i]>> \o SubFrom(p, r, s, i + 1)

re_sub(p, r, s) == SubFrom(p, r, s, 1)

(***************************************************************************)
(* The migration catalog.                                                  *)
(***************************************************************************)
MigrationStep(name, description, file_pattern, search_pattern, replace_pattern) ==
    [name |-> name, description |-> description, file_pattern |-> file_pattern,
     search_pattern |-> search_pattern, replace_pattern |-> replace_pattern,
     required |-> TRUE]

_load_migrations ==
    << [from_version |-> V100, to_version |-> V110,
        breaking_changes |->
            <<"Renamed BaseAgent.process() to BaseAgent.process_message()",
              "Added required user_id parameter to process_message()">>,
        migration_steps |->
            << MigrationStep("update_process_method",
                   "Rename process() to process_message()", MAIN,
                   "async def process\\(", "async def process_message("),
               MigrationStep("add_user_id_param",
                   "Add user_id parameter to process_message()", MAIN,
                   "async def process_message\\(\\s*self,\\s*message: str,\\s*context: Dict\\[str, Any\\]\\s*\\)",
                   "async def process_message(self, message: str, context: Dict[str, Any], user_id: Optional[str] = None, conversation_id: Optional[str] = None)") >>,
        changelog |-> ""],
       [from_version |-> V110, to_version |-> V120,
        breaking_changes |->
            <<"Framework self-update capabilities added",
              "New endpoints /fwk/* available automatically">>,
        migration_steps |-> <<>>,
        changelog |-> "Added self-update system with /fwk/* endpoints. No code changes required for existing agents."],
       [from_version |-> V120, to_version |-> V130,
        breaking_changes |->
            <<"AgentConfig.port is now AgentConfig.server_port",
              "New required field AgentConfig.agent_type">>,
        migration_steps |->
            << MigrationStep("rename_port_config",
                   "Rename port to server_port in AgentConfig", MAIN,
                   "port=(\\d+)", "server_port=\\1"),
               MigrationStep("add_agent_type",
                   "Add required agent_type field", MAIN,
                   "(AgentConfig\\([^)]+)\\)",
                   "\\1,\n        agent_type=\"conversational\"\n    )") >>,
        changelog |-> ""] >>

migrations == _load_migrations

NoMigration == [from_version |-> <<>>, to_version |-> <<>>, breaking_changes |-> <<>>,
                migration_steps |-> <<>>, changelog |-> "<none>"]

\* mutant: any entry that starts at the current version is taken
is_compatible_from(migration, current_version, target_version) ==
    migration.from_version = current_version

is_compatible(migration, current_version, target_version) ==
    migration.from_version = current_version /\ migration.to_version = target_version

\* the first compatible catalog entry, NoMigration (Python's None) when there is none
find_migration(current_version, target_version) ==
    LET hits == {i \in 1..Len(migrations) :
                    is_compatible(migrations[i], current_version, target_version)}
    IN  IF hits = {} THEN NoMigration
        ELSE migrations[CHOOSE i \in hits : \A j \in hits : i <= j]


has_breaking_changes(current_version, target_version) ==
    LET migration == find_migration(current_version, target_version)
    IN  migration # NoMigration /\ Len(migration.migration_steps) > 0

(***************************************************************************)
(* get_migration_info: a dict; keys is the set of keys it holds.          *)
(***************************************************************************)
\* mutant: every catalog entry is reported as having code changes
get_migration_info_any_steps(current_version, target_version) ==
    LET migration == find_migration(current_version, target_version)
    IN  IF migration = NoMigration
        THEN [keys |-> {"migration_available", "message"},
              migration_available |-> FALSE,
              from_version |-> <<>>, to_version |-> <<>>,
              breaking_changes |-> <<>>, migration_steps |-> <<>>,
              changelog |-> "", has_code_changes |-> FALSE]
        ELSE [keys |-> {"migration_available", "from_version", "to_version",
                        "breaking_changes", "migration_steps", "changelog",
                        "has_code_changes"},
              migration_available |-> TRUE,
              from_version |-> migration.from_version,
              to_version |-> migration.to_version,
              breaking_changes |-> migration.breaking_changes,
              migration_steps |->
                  [i \in 1..Len(migration.migration_steps) |->
                      [name |-> migration.migration_steps[i].name,
                       description |-> migration.migration_steps[i].description,
                       file_pattern |-> migration.migration_steps[i].file_pattern,
                       required |-> migration.migration_steps[i].required]],
              changelog |-> migration.changelog,
              has_code_changes |-> TRUE]

get_migration_info(current_version, target_version) ==
    LET migration == find_migration(current_version, target_version)
    IN  IF migration = NoMigration
        THEN [keys |-> {"migration_available", "message"},
              migration_available |-> FALSE,
              from_version |-> <<>>, to_version |-> <<>>,
              breaking_changes |-> <<>>, migration_steps |-> <<>>,
              changelog |-> "", has_code_changes |-> FALSE]
        ELSE [keys |-> {"migration_available", "from_version", "to_version",
                        "breaking_changes", "migration_steps", "changelog",
                        "has_code_changes"},
              migration_available |-> TRUE,
              from_version |-> migration.from_version,
              to_version |-> migration.to_version,
              breaking_changes |-> migration.breaking_changes,
              migration_steps |->
                  [i \in 1..Len(migration.migration_steps) |->
                      [name |-> migration.migration_steps[i].name,
                       description |-> migration.migration_steps[i].description,
                       file_pattern |-> migration.migration_steps[i].file_pattern,
                       required |-> migration.migration_steps[i].required]],
              changelog |-> migration.changelog,
              has_code_changes |-> Len(migration.migration_steps) > 0]

(***************************************************************************)
(* One migration step on the tree t (a function FileNames -> file).       *)
(***************************************************************************)
\* Path.glob for the catalog's patterns, which are literal relative paths
glob(t, file_pattern) == {f \in FileNames : f = file_pattern /\ exists(t[f])}

NoChanges == "No changes needed (patterns already up to date)"

\* (success, details) and the tree after the step; a catalog pattern names one
\* file, so the loop over files_to_modify runs at most once
\* mutant: the file is written back and reported whatever the substitution did
WriteAlways(t, file_path, content, new_content) ==
    [success |-> TRUE,
     tree |-> [t EXCEPT ![file_path] = write_text(new_content)],
     details |-> [msg |-> "Modified files", arg |-> <<file_path>>]]

\* lines 253-260: the file is written back only when the substitution changed it
WriteIfChanged(t, file_path, content, new_content) ==
    IF new_content # content
    THEN [success |-> TRUE,
          tree |-> [t EXCEPT ![file_path] = write_text(new_content)],
          details |-> [msg |-> "Modified files", arg |-> <<file_path>>]]
    ELSE [success |-> TRUE, tree |-> t,
          details |-> [msg |-> NoChanges, arg |-> <<>>]]

\* lines 234-251: the files the pattern names, read and rewritten
ModifyFiles(t, step, files_to_modify) ==
    IF files_to_modify = {}
    THEN [success |-> FALSE, tree |-> t,
          details |-> [msg |-> "No files found matching pattern", arg |-> <<step.file_pattern>>]]
    ELSE LET file_path == CHOOSE f \in files_to_modify : TRUE
         IN  IF t[file_path].kind = "binary"
             THEN [success |-> FALSE, tree |-> t,
                   details |-> [msg |-> "Error applying step", arg |-> <<"UnicodeDecodeError">>]]
             ELSE WriteIfChanged(t, file_path, read_text(t[file_path]),
                      re_sub(step.search_pattern, step.replace_pattern,
                             read_text(t[file_path])))

_apply_migration_step(t, step) == ModifyFiles(t, step, glob(t, step.file_pattern))

(***************************************************************************)
(* Migration backups.  A backup directory is a function FileNames -> file *)
(* (Absent: not in the directory); dirs maps the names of the directories *)
(* that exist to their content.                                            *)
(***************************************************************************)
EmptyDir == [f \in FileNames |-> Absent]

files_to_backup_migration == <<MAIN, REQ, LOCK, DOC>>

\* index of the first file whose read_text() raises, 5 when none does
FirstUnreadable(t, order) ==
    LET bad == {i \in 1..Len(order) : t[order[i]].kind = "binary"}
    IN  IF bad = {} THEN Len(order) + 1 ELSE CHOOSE i \in bad : \A j \in bad : i <= j

Index(order, f) == CHOOSE i \in 1..Len(order) : order[i] = f

\* backup_path, the directory after the copy loop, and whether the loop raised
_create_migration_backup(t, dirs, current_version, target_version, timestamp) ==
    LET backup_path == <<"migration", current_version, target_version, timestamp>>
        old == IF backup_path \in DOMAIN dirs THEN dirs[backup_path] ELSE EmptyDir
        stop == FirstUnreadable(t, files_to_backup_migration)
        dir == [f \in FileNames |->
                   IF exists(t[f]) /\ Index(files_to_backup_migration, f) < stop
                   THEN write_text(read_text(t[f])) ELSE old[f]]
    IN  [backup_path |-> backup_path,
         dirs |-> [n \in DOMAIN dirs \cup {backup_path} |->
                      IF n = backup_path THEN dir ELSE dirs[n]],
         raised |-> stop <= Len(files_to_backup_migration)]

\* every file of the backup directory written over the agent-root file
_rollback_migration(t, dir) ==
    [f \in FileNames |-> IF exists(dir[f]) THEN write_text(read_text(dir[f])) ELSE t[f]]

(***************************************************************************)
(* apply_migration.  The result dict is a record with every key the code  *)
(* ever sets; keys is the set of keys this result holds.                  *)
(***************************************************************************)
MigrationResult(keys, success, migration_required) ==
    [keys |-> keys, success |-> success, migration_required |-> migration_required,
     message |-> "", changes_applied |-> <<>>, failed_steps |-> <<>>,
     breaking_changes |-> <<>>, changelog |-> "", error |-> "", failed_step |-> "",
     rollback_performed |-> FALSE, backup_path |-> <<>>]

\* dict.get(key, default)
Get(d, key, default) == IF key \in d.keys THEN d[key] ELSE default

RECURSIVE ApplySteps(_, _, _, _, _, _)
RECURSIVE StepDone(_, _, _, _, _, _, _)
\* the loop over migration.migration_steps from step i on; backup is what
\* _create_migration_backup returned
ApplySteps(migration, i, t, applied_changes, failed_steps, backup) ==
    IF i > Len(migration.migration_steps)
    THEN [tree |-> t, dirs |-> backup.dirs, raised |-> FALSE,
          result |->
            [MigrationResult({"success", "migration_required", "message",
                              "breaking_changes", "changes_applied", "failed_steps",
                              "backup_path"}, TRUE, TRUE)
             EXCEPT !.message = "Migration completed successfully",
                    !.breaking_changes = migration.breaking_changes,
                    !.changes_applied = applied_changes,
                    !.failed_steps = failed_steps,
                    !.backup_path = backup.backup_path]]
    ELSE StepDone(migration, i, applied_changes, failed_steps, backup,
                  migration.migration_steps[i],
                  _apply_migration_step(t, migration.migration_steps[i]))

\* mutant: every failed step ends the migration, required or not
StepDoneAllRequired(migration, i, applied_changes, failed_steps, backup, step, r) ==
    IF r.success
    THEN ApplySteps(migration, i + 1, r.tree,
             Append(applied_changes,
                 [step |-> step.name, description |-> step.description,
                  details |-> r.details]),
             failed_steps, backup)
    ELSE [tree |-> _rollback_migration(r.tree, backup.dirs[backup.backup_path]),
          dirs |-> backup.dirs, raised |-> FALSE,
          result |->
            [MigrationResult({"success", "migration_required", "error",
                              "failed_step", "rollback_performed"}, FALSE, TRUE)
             EXCEPT !.error = "Required migration step failed",
                    !.failed_step = step.name,
                    !.rollback_performed = TRUE]]

\* lines 175-206: one pass of the loop, r being what _apply_migration_step returned
StepDone(migration, i, applied_changes, failed_steps, backup, step, r) ==
    IF r.success
    THEN ApplySteps(migration, i + 1, r.tree,
             Append(applied_changes,
                 [step |-> step.name, description |-> step.description,
                  details |-> r.details]),
             failed_steps, backup)
    ELSE IF step.required
    THEN [tree |-> _rollback_migration(r.tree, backup.dirs[backup.backup_path]),
          dirs |-> backup.dirs, raised |-> FALSE,
          result |->
            [MigrationResult({"success", "migration_required", "error",
                              "failed_step", "rollback_performed"}, FALSE, TRUE)
             EXCEPT !.error = "Required migration step failed",
                    !.failed_step = step.name,
                    !.rollback_performed = TRUE]]
    ELSE ApplySteps(migration, i + 1, r.tree, applied_changes,
             Append(failed_steps,
                 [step |-> step.name, description |-> step.description,
                  error |-> r.details]),
             backup)

\* lines 168-226: after the backup; an exception of the backup's copy loop leaves
\* apply_migration (raised)
MigrateFrom(migration, t, backup) ==
    IF backup.raised
    THEN [tree |-> t, dirs |-> backup.dirs, raised |-> TRUE,
          result |-> MigrationResult({}, FALSE, FALSE)]
    ELSE ApplySteps(migration, 1, t, <<>>, <<>>, backup)

\* mutant: the backup is taken and the loop entered whatever the entry's steps
MigrateAlways(migration, t, dirs, current_version, target_version, timestamp) ==
    IF migration = NoMigration
    THEN [tree |-> t, dirs |-> dirs, raised |-> FALSE,
          result |->
            [MigrationResult({"success", "migration_required", "message",
                              "changes_applied"}, TRUE, FALSE)
             EXCEPT !.message = "No migration needed"]]
    ELSE MigrateFrom(migration, t,
             _create_migration_backup(t, dirs, current_version, target_version, timestamp))

\* lines 149-170: migration is what find_migration returned
Migrate(migration, t, dirs, current_version, target_version, timestamp) ==
    IF migration = NoMigration
    THEN [tree |-> t, dirs |-> dirs, raised |-> FALSE,
          result |->
            [MigrationResult({"success", "migration_required", "message",
                              "changes_applied"}, TRUE, FALSE)
             EXCEPT !.message = "No migration needed"]]
    ELSE IF Len(migration.migration_steps) = 0
    THEN [tree |-> t, dirs |-> dirs, raised |-> FALSE,
          result |->
            [MigrationResult({"success", "migration_required", "message",
                              "changelog", "breaking_changes"}, TRUE, FALSE)
             EXCEPT !.message = "New features but no code changes required",
                    !.changelog = migration.changelog,
                    !.breaking_changes = migration.breaking_changes]]
    ELSE MigrateFrom(migration, t,
             _create_migration_backup(t, dirs, current_version, target_version, timestamp))

\* the agent tree and the backup directories after the call, the dict returned,
\* and raised: the call ended with an exception instead of returning
apply_migration(t, dirs, current_version, target_version, timestamp) ==
    Migrate(find_migration(current_version, target_version), t, dirs,
            current_version, target_version, timestamp)


(***************************************************************************)
(* State.                                                                  *)
(***************************************************************************)
VARIABLES
    fs,                 \* the agent root: FileNames -> file
    framework_backups,  \* .framework_backups: directory name -> directory
    migration_backups,  \* .migration_backups: directory name -> directory
    now,                \* the wall clock, in seconds
    pc,                 \* each update_framework call's position
    call,               \* each update_framework call's local variables
    result,             \* each update_framework call's UpdateResult
    runs,               \* the direct apply_migration invocations so far
    listing,            \* the get_available_versions call
    agent,              \* BaseAgent: the request counters and the /chat requests
    llm,                \* BaseLLMAgent: the LLM client and its calls in flight
    life,               \* the ASGI server and the application's lifespan
    parent,             \* the directory that holds the agent root and its clones
    capabilities        \* BaseAgent.capabilities

vars == <<fs, framework_backups, migration_backups, now, pc, call, result, runs,
          listing, agent, llm, life, parent, capabilities>>

\* no get_available_versions call has been made
ListingIdle ==
    [pc |-> "idle", tags_outcome |-> "", tags_data |-> <<>>, i |-> 0,
     versions |-> <<>>, lookups |-> <<>>, failed |-> FALSE, result |-> <<>>]

Reqs == 1..MaxReqs

\* a /chat request that has not arrived
NoRequest ==
    [pc |-> "new", message |-> [present |-> FALSE, len |-> 0, text |-> ""],
     entered_at |-> <<>>, invocations |-> 0,
     outcome |-> <<>>, response |-> <<>>]

\* BaseAgent.__init__ (base.py 78-79): last_request_time = None (the empty
\* sequence; <<t>> is the datetime t), request_count = 0
AgentIdle ==
    [request_count |-> 0, last_request_time |-> <<>>, clock |-> 0,
     admitted |-> <<>>, req |-> [r \in Reqs |-> NoRequest]]

\* no LLM client: the agent is not LLM-enabled
LlmIdle ==
    [config |-> <<>>, name |-> "", sdk |-> FALSE, client |-> <<>>,
     constructed |-> 0, time |-> 0,
     call |-> [r \in Reqs |-> [pc |-> "idle", deadline |-> 0, api |-> <<>>,
                               cancelled |-> FALSE, chat |-> <<>>, text |-> <<>>,
                               used |-> <<>>]]]

\* no server has been started
LifeIdle ==
    [pc |-> "off", hooks |-> <<>>, startup |-> "", serving |-> ""]

\* no parent directory is looked at
NoParent == <<>>

\* self.capabilities before the agent is constructed
NoCapabilities == <<>>

Calls == 1..MaxCalls

(***************************************************************************)
(* FrameworkManager.                                                       *)
(***************************************************************************)
\* mutant: the 'v' prefix is not removed
get_current_version_keeps_v(t) ==
    IF t[LOCK].kind = "binary" THEN Unknown
    ELSE IF exists(t[LOCK]) THEN strip(t[LOCK].data)
    ELSE V100

\* never raises: "1.0.0" without a lock file, "unknown" when reading fails
get_current_version(t) ==
    IF t[LOCK].kind = "binary" THEN Unknown
    ELSE IF exists(t[LOCK]) THEN lstrip(strip(t[LOCK].data), {"v"})
    ELSE V100

files_to_backup == {REQ, LOCK}

\* backup_path and the backup directories after the copy loop
\* (mkdir(exist_ok=True): a directory of that name is reused as it is)
_create_backup(t, dirs, version, timestamp) ==
    LET backup_path == <<"backup", version, timestamp>>
        old == IF backup_path \in DOMAIN dirs THEN dirs[backup_path] ELSE EmptyDir
        dir == [f \in FileNames |->
                   IF f \in files_to_backup /\ exists(t[f]) THEN t[f] ELSE old[f]]
    IN  [backup_path |-> backup_path,
         dirs |-> [n \in DOMAIN dirs \cup {backup_path} |->
                      IF n = backup_path THEN dir ELSE dirs[n]]]

FrameworkToken == "hg-agent-fwk.git"
FrameworkLine(target_tag) ==
    <<"git+https://github.com/Holy-Bird-Animation-Studio/", FrameworkToken, "@">> \o target_tag

\* 'hg-agent-fwk.git' in line
IsFrameworkLine(line) == \E i \in 1..Len(line) : line[i] = FrameworkToken

\* mutant: a manifest without a framework line is written back as it is, no error
_update_requirements_file_lenient(t, target_tag) ==
    IF ~exists(t[REQ]) THEN [tree |-> t, raised |-> "FileNotFoundError"]
    ELSE IF t[REQ].kind = "binary" THEN [tree |-> t, raised |-> "UnicodeDecodeError"]
    ELSE [tree |-> [t EXCEPT ![REQ] =
                       Text([i \in 1..Len(t[REQ].data) |->
                                IF IsFrameworkLine(t[REQ].data[i])
                                THEN FrameworkLine(target_tag) ELSE t[REQ].data[i]])],
          raised |-> ""]

\* the manifest after the rewrite, or the exception raised ("" when none)
_update_requirements_file(t, target_tag) ==
    IF ~exists(t[REQ]) THEN [tree |-> t, raised |-> "FileNotFoundError"]
    ELSE IF t[REQ].kind = "binary" THEN [tree |-> t, raised |-> "UnicodeDecodeError"]
    ELSE LET lines == t[REQ].data
             updated_lines == [i \in 1..Len(lines) |->
                                  IF IsFrameworkLine(lines[i])
                                  THEN FrameworkLine(target_tag) ELSE lines[i]]
             framework_updated == \E i \in 1..Len(lines) : IsFrameworkLine(lines[i])
         IN  IF ~framework_updated THEN [tree |-> t, raised |-> "ValueError"]
             ELSE [tree |-> [t EXCEPT ![REQ] = Text(updated_lines)], raised |-> ""]

\* mutant: only the lock file is copied back
RestoreLockOnly(t, dir) ==
    [f \in FileNames |-> IF f = LOCK /\ exists(dir[f]) THEN dir[f] ELSE t[f]]

\* the copy loop of _rollback_from_backup: every file of the backup directory
\* copied over the agent-root file of the same name
RestoreFiles(t, dir) ==
    [f \in FileNames |-> IF exists(dir[f]) THEN dir[f] ELSE t[f]]

\* pip install -r requirements.txt can exit 0 only when the manifest exists
PipCanSucceed(t) == exists(t[REQ])

\* mutant: pip's exit status is not looked at
_reinstall_framework_unchecked(exit_ok) == ""

\* the exception _reinstall_framework raises when pip has exited ("" when none):
\* a non-zero exit is a RuntimeError
_reinstall_framework(exit_ok) == IF exit_ok THEN "" ELSE "RuntimeError"

test_commands ==
    << <<"python", "-m", "pytest", "tests/", "-v">>,
       <<"python", "-m", "pytest", ".", "-v">>,
       <<"python", "test_agent.py">> >>

\* the dict _run_tests returns; kind tells which of its three returns made it
TestResults(success, kind, command, exit_code) ==
    [success |-> success, kind |-> kind, command |-> command,
     exit_code |-> exit_code]

RECURSIVE join(_, _)
\* sep.join(words)
join(sep, words) ==
    IF Len(words) = 0 THEN <<>>
    ELSE IF Len(words) = 1 THEN <<words[1]>>
    ELSE <<words[1], sep>> \o join(sep, Tail(words))

\* mutant: a test run is a success whatever its exit code
TestRunLenient(cmd, returncode) ==
    TestResults(TRUE, "ran", join(" ", test_commands[cmd]), Some(returncode))

\* lines 326-333: the dict returned after test command cmd has exited
TestRun(cmd, returncode) ==
    TestResults(returncode = 0, "ran", join(" ", test_commands[cmd]), Some(returncode))

\* process.returncode of the test command
returncode(outcome) == IF outcome = "exit 0" THEN 0 ELSE 1

\* mutant: the test results are not passed on to the result
UpdateResultWithoutTests(success, from_version, to_version, test_results, rollback_available, error_message) ==
    [success |-> success, from_version |-> from_version, to_version |-> to_version,
     test_results |-> <<>>, rollback_available |-> rollback_available,
     error_message |-> error_message,
     migration_applied |-> <<>>, migration_changes |-> <<>>,
     breaking_changes |-> <<>>, migration_message |-> <<>>]

UpdateResult(success, from_version, to_version, test_results, rollback_available, error_message) ==
    [success |-> success, from_version |-> from_version, to_version |-> to_version,
     test_results |-> test_results, rollback_available |-> rollback_available,
     error_message |-> error_message,
     migration_applied |-> <<>>, migration_changes |-> <<>>,
     breaking_changes |-> <<>>, migration_message |-> <<>>]

\* lines 188-212: the successful result, with the migration's detail merged in
SuccessResult(l, test_results) ==
    [UpdateResult(TRUE, l.current_version, l.target_clean, test_results, TRUE, "")
     EXCEPT !.migration_applied = <<Get(l.migration_result, "migration_required", FALSE)>>,
            !.migration_changes = <<Get(l.migration_result, "changes_applied", <<>>)>>,
            !.breaking_changes = <<Get(l.migration_result, "breaking_changes", <<>>)>>,
            !.migration_message = <<Get(l.migration_result, "message", "")>>]

NoCall ==
    [target_version |-> <<>>, run_tests |-> FALSE, current_version |-> <<>>,
     target_tag |-> <<>>, target_clean |-> <<>>, backup_path |-> <<>>,
     migration_result |-> MigrationResult({}, FALSE, FALSE), migrated |-> FALSE,
     test_results |-> <<>>, error |-> "", cmd |-> 0, probes |-> <<>>,
     log |-> <<>>, pre |-> EmptyDir]

NoResult == UpdateResult(FALSE, <<>>, <<>>, <<>>, FALSE, "<no result>")

Event(step, ok) == [step |-> step, ok |-> ok]


(***************************************************************************)
(* update_framework, one action per stretch of code between two points    *)
(* where the coroutine waits for a subprocess.                              *)
(*   pc: idle -> reinstall -> which -> tests -> done -> closed             *)
(*       rollback_tests: the reinstall of the rollback after failed tests  *)
(*       rollback:       the reinstall of the except handler's rollback    *)
(***************************************************************************)
\* the except handler up to the reinstall it waits for (lines 214-219, 367-374)
Handle(c, l, tree, dirs, error) ==
    /\ fs' = RestoreFiles(tree, dirs[l.backup_path])
    /\ pc' = [pc EXCEPT ![c] = "rollback"]
    /\ call' = [call EXCEPT ![c] =
                   [l EXCEPT !.error = error,
                             !.log = Append(l.log, Event("restore", TRUE))]]
    /\ UNCHANGED result

\* the call returns r
Return(c, l, r) ==
    /\ pc' = [pc EXCEPT ![c] = "done"]
    /\ call' = [call EXCEPT ![c] = l]
    /\ result' = [result EXCEPT ![c] = r]

\* lines 156-163: backup is what _create_backup returned, upd the outcome of
\* _update_requirements_file; then the reinstall is started
Begin(c, l0, backup, upd) ==
    LET l == [l0 EXCEPT !.backup_path = backup.backup_path,
                        !.log = <<Event("backup", TRUE),
                                  Event("manifest", upd.raised = "")>>]
    IN  /\ framework_backups' = backup.dirs
        /\ IF upd.raised = ""
           THEN /\ fs' = upd.tree
                /\ pc' = [pc EXCEPT ![c] = "reinstall"]
                /\ call' = [call EXCEPT ![c] = l]
                /\ UNCHANGED result
           ELSE Handle(c, l, upd.tree, backup.dirs, upd.raised)

\* mutant: a call enters only while no other call is in progress
update_framework_locked(c, target_version, run_tests) ==
    /\ pc[c] = "idle"
    /\ \A d \in Calls \ {c} : pc[d] \in {"idle", "done", "closed"}
    /\ Begin(c,
             [NoCall EXCEPT !.target_version = target_version,
                            !.run_tests = run_tests,
                            !.current_version = get_current_version(fs),
                            !.target_tag = IF startswith(target_version, "v")
                                           THEN target_version
                                           ELSE <<"v">> \o target_version,
                            !.target_clean = lstrip(target_version, {"v"}),
                            !.pre = fs],
             _create_backup(fs, framework_backups, get_current_version(fs), now),
             _update_requirements_file(fs, IF startswith(target_version, "v")
                                           THEN target_version
                                           ELSE <<"v">> \o target_version))
    /\ UNCHANGED <<migration_backups, now, runs>>
    /\ UNCHANGED <<listing, agent>>
    /\ UNCHANGED <<llm, life, parent, capabilities>>

\* lines 143-163: entry, backup, manifest rewrite, reinstall started
update_framework(c, target_version, run_tests) ==
    /\ pc[c] = "idle"
    /\ LET current_version == get_current_version(fs)
           target_tag == IF startswith(target_version, "v") THEN target_version
                         ELSE <<"v">> \o target_version
           target_clean == lstrip(target_version, {"v"})
       IN  Begin(c,
                 [NoCall EXCEPT !.target_version = target_version,
                                !.run_tests = run_tests,
                                !.current_version = current_version,
                                !.target_tag = target_tag,
                                !.target_clean = target_clean,
                                !.pre = fs],
                 _create_backup(fs, framework_backups, current_version, now),
                 _update_requirements_file(fs, target_tag))
    /\ UNCHANGED <<migration_backups, now, runs>>
    /\ UNCHANGED <<listing, agent>>
    /\ UNCHANGED <<llm, life, parent, capabilities>>

\* lines 166-212: m is what apply_migration did; its result is stored whatever
\* its success flag says, then the lock file is written and the tests start
Migrated(c, l1, m) ==
    LET l2 == [l1 EXCEPT !.migration_result = m.result,
                         !.migrated = m.tree # fs,
                         !.log = Append(Append(l1.log,
                                     Event("migration", ~m.raised /\ m.result.success)),
                                     Event("lock", ~m.raised))]
    IN  /\ migration_backups' = m.dirs
        /\ IF m.raised
           THEN Handle(c, [l2 EXCEPT !.log = Append(l1.log, Event("migration", FALSE))],
                       m.tree, framework_backups, "UnicodeDecodeError")
           ELSE /\ fs' = [m.tree EXCEPT ![LOCK] = Text(l1.target_tag \o <<"\n">>)]
                /\ IF l1.run_tests
                   THEN /\ pc' = [pc EXCEPT ![c] = "which"]
                        /\ call' = [call EXCEPT ![c] = [l2 EXCEPT !.cmd = 1]]
                        /\ UNCHANGED result
                   ELSE Return(c, l2, SuccessResult(l2, <<>>))

\* lines 163-166: pip has exited; a non-zero exit goes to the except handler
ReinstallDone(c, ok) ==
    /\ pc[c] = "reinstall"
    /\ ok => PipCanSucceed(fs)
    /\ IF _reinstall_framework(ok) # ""
       THEN /\ Handle(c, [call[c] EXCEPT !.log = Append(@, Event("reinstall", ok))],
                      fs, framework_backups, _reinstall_framework(ok))
            /\ UNCHANGED migration_backups
       ELSE Migrated(c, [call[c] EXCEPT !.log = Append(@, Event("reinstall", ok))],
                     apply_migration(fs, migration_backups, call[c].current_version,
                                     call[c].target_clean, now))
    /\ UNCHANGED <<framework_backups, now, runs>>
    /\ UNCHANGED <<listing, agent>>
    /\ UNCHANGED <<llm, life, parent, capabilities>>

\* lines 313-340, 349-360: "which <cmd[0]>" has exited
CommandExistsDone(c, found) ==
    /\ pc[c] = "which"
    /\ LET l == [call[c] EXCEPT !.probes = Append(@, found)]
       IN  IF found
           THEN /\ pc' = [pc EXCEPT ![c] = "tests"]
                /\ call' = [call EXCEPT ![c] = l]
                /\ UNCHANGED result
           ELSE IF l.cmd < Len(test_commands)
           THEN /\ call' = [call EXCEPT ![c] = [l EXCEPT !.cmd = l.cmd + 1]]
                /\ UNCHANGED <<pc, result>>
           ELSE LET tr == TestResults(TRUE, "No test command found, skipping tests",
                                      <<>>, None)
                    l1 == [l EXCEPT !.test_results = <<tr>>,
                                    !.log = Append(l.log, Event("tests", TRUE))]
                IN  Return(c, l1, SuccessResult(l1, <<tr>>))
    /\ UNCHANGED <<fs, framework_backups, migration_backups, now, runs>>
    /\ UNCHANGED <<listing, agent>>
    /\ UNCHANGED <<llm, life, parent, capabilities>>

\* lines 324-347, 176-178: the test command has exited (or could not be started)
TestsDone(c, outcome) ==
    /\ pc[c] = "tests"
    /\ LET l == call[c]
           tr == IF outcome = "error" THEN TestResults(FALSE, "error", <<>>, None)
                 ELSE TestRun(l.cmd, returncode(outcome))
           l1 == [l EXCEPT !.test_results = <<tr>>,
                           !.log = Append(l.log, Event("tests", tr.success))]
       IN  IF tr.success
           THEN /\ Return(c, l1, SuccessResult(l1, <<tr>>))
                /\ UNCHANGED fs
           ELSE /\ fs' = RestoreFiles(fs, framework_backups[l.backup_path])
                /\ pc' = [pc EXCEPT ![c] = "rollback_tests"]
                /\ call' = [call EXCEPT ![c] =
                               [l1 EXCEPT !.log = Append(l1.log, Event("restore", TRUE))]]
                /\ UNCHANGED result
    /\ UNCHANGED <<framework_backups, migration_backups, now, runs>>
    /\ UNCHANGED <<listing, agent>>
    /\ UNCHANGED <<llm, life, parent, capabilities>>

\* lines 178-186: the reinstall of the rollback after failed tests has exited
RollbackAfterTestsDone(c, ok) ==
    /\ pc[c] = "rollback_tests"
    /\ ok => PipCanSucceed(fs)
    /\ LET l0 == call[c]
           l == [l0 EXCEPT !.log = Append(l0.log, Event("rollback", ok))]
       IN  IF _reinstall_framework(ok) = ""
           THEN /\ Return(c, l, UpdateResult(FALSE, l.current_version, l.target_clean,
                                    l.test_results, TRUE,
                                    "Tests failed after update, automatically rolled back"))
                /\ UNCHANGED fs
           ELSE Handle(c, l, fs, framework_backups, _reinstall_framework(ok))
    /\ UNCHANGED <<framework_backups, migration_backups, now, runs>>
    /\ UNCHANGED <<listing, agent>>
    /\ UNCHANGED <<llm, life, parent, capabilities>>

\* lines 219-231: the reinstall of the except handler's rollback has exited
RollbackDone(c, ok) ==
    /\ pc[c] = "rollback"
    /\ ok => PipCanSucceed(fs)
    /\ LET l0 == call[c]
           l == [l0 EXCEPT !.log = Append(l0.log, Event("rollback", ok))]
       IN  Return(c, l, UpdateResult(FALSE, l.current_version, l.target_clean,
                                     <<>>, _reinstall_framework(ok) = "", l.error))
    /\ UNCHANGED <<fs, framework_backups, migration_backups, now, runs>>
    /\ UNCHANGED <<listing, agent>>
    /\ UNCHANGED <<llm, life, parent, capabilities>>

\* base.py lines 194-197: the /fwk/update handler hands the UpdateResult to the
\* HTTP layer; the call's frame and its result are gone
Respond(c) ==
    /\ pc[c] = "done"
    /\ pc' = [pc EXCEPT ![c] = "closed"]
    /\ call' = [call EXCEPT ![c] = NoCall]
    /\ result' = [result EXCEPT ![c] = NoResult]
    /\ UNCHANGED <<fs, framework_backups, migration_backups, now, runs>>
    /\ UNCHANGED <<listing, agent>>
    /\ UNCHANGED <<llm, life, parent, capabilities>>

\* a second passes
Tick ==
    /\ now < MaxTime
    /\ now' = now + 1
    /\ UNCHANGED <<fs, framework_backups, migration_backups, pc, call, result, runs>>
    /\ UNCHANGED <<listing, agent>>
    /\ UNCHANGED <<llm, life, parent, capabilities>>

(***************************************************************************)
(* The agent roots and requests the update specification starts from.     *)
(***************************************************************************)
LockFiles ==
    {Absent, Binary, Text(<<"v">> \o V100 \o <<"\n">>), Text(V110),
     Text(<<"v">> \o V120 \o <<"\n">>)}

Manifests ==
    {Absent,
     Text(<< <<"fastapi>=0.100">>, <<>> >>),
     Text(<< <<"fastapi>=0.100">>,
             <<"git+https://github.com/Holy-Bird-Animation-Studio/", FrameworkToken,
               "@", "v", "1", ".", "0", ".", "0">>,
             <<"# pinned: ", FrameworkToken>>,
             <<>> >>)}

Sources ==
    {Absent,
     Text(<<tCFG, tLP, tPORT, tDIG, tRP, tWS, tADP, tLP, tSIG, tRP>>)}

Docs == {Text(<<"# agent notes">>)}

\* target_version as given to /fwk/update: bare, with the 'v' prefix, and with a
\* trailing blank (pip strips the requirement line, so such an update can succeed)
Targets ==
    {V110, <<"v">> \o V110, V130, V120 \o <<" ">>}

TypeOK ==
    /\ now \in 0..MaxTime
    /\ pc \in [Calls -> {"idle", "reinstall", "which", "tests", "rollback_tests",
                         "rollback", "done", "closed"}]
    /\ DOMAIN fs = FileNames
    /\ Len(runs) <= MaxRuns

Init ==
    /\ fs \in {[f \in FileNames |->
                   CASE f = MAIN -> m [] f = REQ -> r [] f = LOCK -> k [] f = DOC -> d] :
               m \in Sources, r \in Manifests, k \in LockFiles, d \in Docs}
    /\ framework_backups = <<>>
    /\ migration_backups = <<>>
    /\ now = 0
    /\ pc = [c \in Calls |-> "idle"]
    /\ call = [c \in Calls |-> NoCall]
    /\ result = [c \in Calls |-> NoResult]
    /\ runs = <<>>
    /\ listing = ListingIdle
    /\ agent = AgentIdle
    /\ llm = LlmIdle
    /\ life = LifeIdle
    /\ parent = NoParent
    /\ capabilities = NoCapabilities

\* one update in flight at a time, the calls started in the order of their numbers
Serial(c) ==
    /\ \A d \in Calls : d < c => pc[d] = "closed"
    /\ \A d \in Calls : d > c => pc[d] = "idle"

Next ==
    \/ \E c \in Calls, t \in Targets, rt \in BOOLEAN :
           Serial(c) /\ update_framework(c, t, rt)
    \/ \E c \in Calls, ok \in BOOLEAN : ReinstallDone(c, ok)
    \/ \E c \in Calls, found \in BOOLEAN : CommandExistsDone(c, found)
    \/ \E c \in Calls, outcome \in {"exit 0", "exit 1", "error"} : TestsDone(c, outcome)
    \/ \E c \in Calls, ok \in BOOLEAN : RollbackAfterTestsDone(c, ok)
    \/ \E c \in Calls, ok \in BOOLEAN : RollbackDone(c, ok)
    \/ \E c \in Calls : Respond(c)
    \/ Tick

Spec == Init /\ [][Next]_vars


(***************************************************************************)
(* The migration specification: MigrationManager used on its own, on every *)
(* short source file over the tokens the catalog's patterns are made of.  *)
(***************************************************************************)
SeqsUpTo(S, n) == UNION {[1..k -> S] : k \in 0..n}

\* longer sources: a 1.0.0-era handler; one whose rename was applied by hand,
\* with white space around the parameters; a fully migrated one; and two
\* AgentConfig calls in one file
LongSources ==
    {Text(<<tADP, tLP, tSIG, tRP>>),
     Text(<<tADP, tMSG, tLP, tWS, tSIG, tWS, tWS, tRP>>),
     Text(<<tADP, tMSG, tLP, tSIG, tUID, tRP>>),
     Text(<<tCFG, tLP, tPORT, tDIG, tDIG, tRP, tWS, tCFG, tLP, tSRV, tPORT, tDIG, tRP>>)}

MigSources ==
    Sources \cup LongSources
            \cup {Text(s) : s \in SeqsUpTo(ProcessTokens, MaxLen)}
            \cup {Text(s) : s \in SeqsUpTo(ConfigTokens, MaxLen)}

\* the version transitions asked for: the catalog's three and one that skips versions
MigPairs == {<<V100, V110>>, <<V110, V120>>, <<V120, V130>>, <<V100, V130>>}

MigInit ==
    /\ fs \in {[f \in FileNames |->
                   CASE f = MAIN -> m
                     [] f = REQ -> Text(<< <<"fastapi>=0.100">> >>)
                     [] f = LOCK -> Absent
                     [] f = DOC -> Text(<<"# agent notes">>)] :
               m \in MigSources}
    /\ framework_backups = <<>>
    /\ migration_backups = <<>>
    /\ now = 0
    /\ pc = [c \in Calls |-> "idle"]
    /\ call = [c \in Calls |-> NoCall]
    /\ result = [c \in Calls |-> NoResult]
    /\ runs = <<>>
    /\ listing = ListingIdle
    /\ agent = AgentIdle
    /\ llm = LlmIdle
    /\ life = LifeIdle
    /\ parent = NoParent
    /\ capabilities = NoCapabilities

\* await migration_manager.apply_migration(current_version, target_version)
MigApply(current_version, target_version) ==
    /\ Len(runs) < MaxRuns
    /\ LET m == apply_migration(fs, migration_backups, current_version,
                                target_version, now)
       IN  /\ fs' = m.tree
           /\ migration_backups' = m.dirs
           /\ runs' = Append(runs, [op |-> "apply_migration",
                                    from_version |-> current_version,
                                    to_version |-> target_version,
                                    migration |-> find_migration(current_version,
                                                                 target_version),
                                    before |-> fs, after |-> m.tree,
                                    dirs_before |-> migration_backups,
                                    dirs_after |-> m.dirs,
                                    raised |-> m.raised, result |-> m.result])
    /\ UNCHANGED <<framework_backups, now, pc, call, result>>
    /\ UNCHANGED <<listing, agent>>
    /\ UNCHANGED <<llm, life, parent, capabilities>>

\* the invocations of one behaviour fall within one clock second, so that a
\* repeated transition reuses its backup directory
MigNext == \E p \in MigPairs : MigApply(p[1], p[2])

MigSpec == MigInit /\ [][MigNext]_vars


(***************************************************************************)
(* The step specification: a MigrationManager whose catalog an agent has  *)
(* extended (self.migrations is a plain list, MigrationStep.required a    *)
(* field) with entries that have steps on other files and steps that are  *)
(* not required, on agent roots whose files end their lines either way.   *)
(***************************************************************************)
V200 == <<"2", ".", "0", ".", "0">>
V210 == <<"2", ".", "1", ".", "0">>
V220 == <<"2", ".", "2", ".", "0">>
V230 == <<"2", ".", "3", ".", "0">>
CONFIG == "app/config.py"

\* MigrationStep(..., required=False)
OptionalStep(name, description, file_pattern, search_pattern, replace_pattern) ==
    [MigrationStep(name, description, file_pattern, search_pattern, replace_pattern)
     EXCEPT !.required = FALSE]

RenamePort == MigrationStep("rename_port_config", "Rename port to server_port", MAIN,
                            "port=(\\d+)", "server_port=\\1")

ExtraMigrations ==
    { \* a required step on a file the agent does not have, after a step that edits
      [from_version |-> V200, to_version |-> V210, breaking_changes |-> <<>>,
       migration_steps |->
           << RenamePort,
              MigrationStep("move_config", "Update app/config.py", CONFIG,
                            "port=(\\d+)", "server_port=\\1") >>,
       changelog |-> ""],
      \* a step that is not required, on that file, before a required step
      [from_version |-> V210, to_version |-> V220, breaking_changes |-> <<>>,
       migration_steps |->
           << OptionalStep("move_config", "Update app/config.py", CONFIG,
                           "port=(\\d+)", "server_port=\\1"),
              RenamePort >>,
       changelog |-> ""],
      \* a step that is not required and then a required one, both on that file
      [from_version |-> V220, to_version |-> V230, breaking_changes |-> <<>>,
       migration_steps |->
           << OptionalStep("move_config", "Update app/config.py", CONFIG,
                           "port=(\\d+)", "server_port=\\1"),
              MigrationStep("check_config", "Check app/config.py", CONFIG,
                            "port=(\\d+)", "server_port=\\1") >>,
       changelog |-> ""] }

\* a 1.0.0-era handler and a fully migrated one, saved with CRLF line ends
CrlfSources ==
    {TextCRLF(<<tADP, tLP, tSIG, tRP>>),
     TextCRLF(<<tADP, tMSG, tLP, tSIG, tUID, tRP>>)}

StepInit ==
    /\ fs \in {[f \in FileNames |->
                   CASE f = MAIN -> m
                     [] f = REQ -> Text(<< <<"fastapi>=0.100">> >>)
                     [] f = LOCK -> Absent
                     [] f = DOC -> d] :
               m \in Sources \cup LongSources \cup CrlfSources,
               d \in {Text(<<"# agent notes">>), TextCRLF(<<"# agent notes">>)}}
    /\ framework_backups = <<>>
    /\ migration_backups = <<>>
    /\ now = 0
    /\ pc = [c \in Calls |-> "idle"]
    /\ call = [c \in Calls |-> NoCall]
    /\ result = [c \in Calls |-> NoResult]
    /\ runs = <<>>
    /\ listing = ListingIdle
    /\ agent = AgentIdle
    /\ llm = LlmIdle
    /\ life = LifeIdle
    /\ parent = NoParent
    /\ capabilities = NoCapabilities

\* await apply_migration(entry.from_version, entry.to_version) on a manager whose
\* catalog holds entry: find_migration returns it
ApplyEntry(entry) ==
    /\ Len(runs) < MaxRuns
    /\ LET m == Migrate(entry, fs, migration_backups, entry.from_version,
                        entry.to_version, now)
       IN  /\ fs' = m.tree
           /\ migration_backups' = m.dirs
           /\ runs' = Append(runs, [op |-> "apply_migration",
                                    from_version |-> entry.from_version,
                                    to_version |-> entry.to_version,
                                    migration |-> entry,
                                    before |-> fs, after |-> m.tree,
                                    dirs_before |-> migration_backups,
                                    dirs_after |-> m.dirs,
                                    raised |-> m.raised, result |-> m.result])
    /\ UNCHANGED <<framework_backups, now, pc, call, result>>
    /\ UNCHANGED <<listing, agent>>
    /\ UNCHANGED <<llm, life, parent, capabilities>>

\* the versions get_migration_info is asked about
InfoVersions == {V100, V110, V120, V130}

\* get_migration_info(current_version, target_version): a synchronous call that
\* reads the catalog and builds a dict
GetInfo(current_version, target_version) ==
    /\ Len(runs) < MaxRuns
    /\ runs' = Append(runs, [op |-> "get_migration_info",
                             from_version |-> current_version,
                             to_version |-> target_version,
                             before |-> fs, after |-> fs,
                             dirs_before |-> migration_backups,
                             dirs_after |-> migration_backups,
                             info |-> get_migration_info(current_version, target_version)])
    /\ UNCHANGED <<fs, framework_backups, migration_backups, now, pc, call, result>>
    /\ UNCHANGED <<listing, agent>>
    /\ UNCHANGED <<llm, life, parent, capabilities>>

StepNext ==
    \/ \E p \in MigPairs : MigApply(p[1], p[2])
    \/ \E e \in ExtraMigrations : ApplyEntry(e)
    \/ \E a \in InfoVersions, b \in InfoVersions : GetInfo(a, b)

StepSpec == StepInit /\ [][StepNext]_vars


(***************************************************************************)
(* get_available_versions (the listing specification).  The call waits    *)
(* for the tag listing and then, tag by tag, for the release lookup.      *)
(*   listing.pc: idle -> tags -> release (once per tag) -> done           *)
(***************************************************************************)
\* code points of the characters the tags are made of
ord(c) ==
    CASE c = "." -> 46 [] c = "0" -> 48 [] c = "1" -> 49 [] c = "2" -> 50
      [] c = "9" -> 57 [] c = "v" -> 118

\* mutant: the shorter string is the smaller, strings of one length by code point
\* (the order of the numbers for single components)
RECURSIVE str_lt_numeric(_, _)
str_lt_numeric(a, b) ==
    IF Len(a) # Len(b) THEN Len(a) < Len(b)
    ELSE IF a = <<>> THEN FALSE
    ELSE IF a[1] = b[1] THEN str_lt_numeric(Tail(a), Tail(b))
    ELSE ord(a[1]) < ord(b[1])

\* Python's a < b on str: by code point, a proper prefix is the smaller
RECURSIVE str_lt(_, _)
str_lt(a, b) ==
    IF b = <<>> THEN FALSE
    ELSE IF a = <<>> THEN TRUE
    ELSE IF a[1] = b[1] THEN str_lt(Tail(a), Tail(b))
    ELSE ord(a[1]) < ord(b[1])

\* v put into a descending list behind the elements that are not smaller
RECURSIVE insert(_, _)
insert(sorted, v) ==
    IF sorted = <<>> THEN <<v>>
    ELSE IF str_lt(Head(sorted).version, v.version) THEN <<v>> \o sorted
    ELSE <<Head(sorted)>> \o insert(Tail(sorted), v)

\* versions.sort(key=lambda v: v.version, reverse=True): stable, descending
RECURSIVE sort_reverse(_)
sort_reverse(versions) ==
    IF versions = <<>> THEN <<>>
    ELSE insert(sort_reverse(SubSeq(versions, 1, Len(versions) - 1)),
                versions[Len(versions)])

FrameworkVersion(tag, version, release_date, changelog, is_prerelease) ==
    [tag |-> tag, version |-> version, release_date |-> release_date,
     changelog |-> changelog, is_prerelease |-> is_prerelease]

\* what the release lookup can end in: the release's JSON, the JSON of a release
\* published without a description ("body": null), a 404, a network error
ReleaseOutcomes == {"200", "200 null body", "404", "error"}

EmptyInfo == [keys |-> {}, published_at |-> None, body |-> None, prerelease |-> FALSE]

\* mutant: a lookup that does not end in a 200 yields a dict without a usable body
_get_release_info_strict(outcome) ==
    IF outcome = "200"
    THEN [keys |-> {"published_at", "body", "prerelease"},
          published_at |-> Some("2024-05-01T00:00:00Z"), body |-> Some("notes"),
          prerelease |-> TRUE]
    ELSE [keys |-> {"published_at", "body", "prerelease"},
          published_at |-> None, body |-> None, prerelease |-> FALSE]

\* the dict _get_release_info returns: the release's JSON on a 200, {} otherwise
_get_release_info(outcome) ==
    CASE outcome = "200" ->
             [keys |-> {"published_at", "body", "prerelease"},
              published_at |-> Some("2024-05-01T00:00:00Z"), body |-> Some("notes"),
              prerelease |-> TRUE]
      [] outcome = "200 null body" ->
             [keys |-> {"published_at", "body", "prerelease"},
              published_at |-> Some("2024-05-01T00:00:00Z"), body |-> None,
              prerelease |-> FALSE]
      [] OTHER -> EmptyInfo

\* the tag names of the listing, and an entry without the key "name"
TagNames ==
    {<<"v", "1", ".", "9", ".", "0">>, <<"v", "1", ".", "1", "0", ".", "0">>,
     <<"1", ".", "9", ".", "0">>}
TagEntries == {[keys |-> {"name"}, name |-> n] : n \in TagNames}
                  \cup {[keys |-> {"commit"}, name |-> <<>>]}
TagLists == UNION {[1..k -> TagEntries] : k \in 0..MaxTags}

\* the except branch: the error is logged and [] returned
ListingFailed(l) == [l EXCEPT !.pc = "done", !.failed = TRUE, !.result = <<>>]

\* the for loop at tag i: tag["name"] and the release lookup started, or, behind
\* the last tag, the sort and the return
Loop(l, i) ==
    IF i > Len(l.tags_data)
    THEN [l EXCEPT !.pc = "done", !.i = i, !.result = sort_reverse(l.versions)]
    ELSE IF "name" \notin l.tags_data[i].keys
    THEN ListingFailed([l EXCEPT !.i = i])
    ELSE [l EXCEPT !.pc = "release", !.i = i]

\* the FrameworkVersion of tag i is built from release_info and appended; a
\* changelog of None fails the model's validation
Built(l, tag_name, release_info) ==
    IF Get(release_info, "body", Some("")) = None
    THEN ListingFailed(l)
    ELSE Loop([l EXCEPT !.versions =
                   Append(@, FrameworkVersion(tag_name, lstrip(tag_name, {"v"}),
                                 Get(release_info, "published_at", None),
                                 Get(release_info, "body", Some(""))[1],
                                 Get(release_info, "prerelease", FALSE)))],
              l.i + 1)

\* GET /fwk/available: the call is made and waits for the tag listing
GetAvailableVersions ==
    /\ listing.pc = "idle"
    /\ listing' = [listing EXCEPT !.pc = "tags"]
    /\ UNCHANGED <<fs, framework_backups, migration_backups, now, pc, call, result,
                   runs, agent>>
    /\ UNCHANGED <<llm, life, parent, capabilities>>

\* the tag listing has ended: a network error, a status raise_for_status
\* rejects, a body that is not JSON, or the list of tags
TagsDone(outcome, tags) ==
    /\ listing.pc = "tags"
    /\ listing' = IF outcome = "ok"
                  THEN Loop([listing EXCEPT !.tags_outcome = outcome,
                                            !.tags_data = tags], 1)
                  ELSE ListingFailed([listing EXCEPT !.tags_outcome = outcome])
    /\ UNCHANGED <<fs, framework_backups, migration_backups, now, pc, call, result,
                   runs, agent>>
    /\ UNCHANGED <<llm, life, parent, capabilities>>

\* the release lookup of tag i has ended
ReleaseDone(outcome) ==
    /\ listing.pc = "release"
    /\ listing' = Built([listing EXCEPT !.lookups = Append(@, outcome)],
                        listing.tags_data[listing.i].name,
                        _get_release_info(outcome))
    /\ UNCHANGED <<fs, framework_backups, migration_backups, now, pc, call, result,
                   runs, agent>>
    /\ UNCHANGED <<llm, life, parent, capabilities>>

ListingInit ==
    /\ fs = EmptyDir
    /\ framework_backups = <<>>
    /\ migration_backups = <<>>
    /\ now = 0
    /\ pc = [c \in Calls |-> "idle"]
    /\ call = [c \in Calls |-> NoCall]
    /\ result = [c \in Calls |-> NoResult]
    /\ runs = <<>>
    /\ listing = ListingIdle
    /\ agent = AgentIdle
    /\ llm = LlmIdle
    /\ life = LifeIdle
    /\ parent = NoParent
    /\ capabilities = NoCapabilities

ListingNext ==
    \/ GetAvailableVersions
    \/ \E outcome \in {"error", "status", "not json"} : TagsDone(outcome, <<>>)
    \/ \E tags \in TagLists : TagsDone("ok", tags)
    \/ \E outcome \in ReleaseOutcomes : ReleaseDone(outcome)

ListingSpec == ListingInit /\ [][ListingNext]_vars


(***************************************************************************)
(* POST /chat on the base runtime (the chat specification).  Requests are *)
(* numbered in the order they arrive; a request is validated, enters the  *)
(* handler, waits inside process_message and is answered.                 *)
(*   agent.req[r].pc: new -> rejected | processing -> responded           *)
(***************************************************************************)
\* ChatRequest.message: Field(..., min_length=1, max_length=10000)
min_length == 1
max_length == 10000

\* a message is its length and its text; NoMessage: the body has no "message"
NoMessage == [present |-> FALSE, len |-> 0, text |-> ""]
Message(len, text) == [present |-> TRUE, len |-> len, text |-> text]

ChatMessages ==
    {NoMessage, Message(0, ""), Message(min_length, "a"), Message(max_length, "b"),
     Message(max_length + 1, "c")}

\* mutant: the length has no upper limit
ChatRequestValidNoMax(message) ==
    message.present /\ message.len >= min_length

\* the validation of the ChatRequest model, made before the handler is called
ChatRequestValid(message) ==
    message.present /\ message.len >= min_length /\ message.len <= max_length

\* what process_message ends in: it returns a text or raises an error
ProcessOutcomes ==
    {[kind |-> "return", text |-> "hello"], [kind |-> "raise", text |-> "boom"]}

HttpResponse(status, response, original_message, detail) ==
    [status |-> status, response |-> response,
     original_message |-> original_message, detail |-> detail]

\* mutant: the counter is written back from a value read before the other
\* requests in flight entered
EnterLostUpdate(a, r, message) ==
    [a EXCEPT !.last_request_time = Some(a.clock),
              !.request_count =
                  IF \E q \in Reqs : a.req[q].pc = "processing" THEN @ ELSE @ + 1,
              !.admitted = Append(@, r),
              !.req[r] = [NoRequest EXCEPT !.pc = "processing",
                                          !.message = message,
                                          !.entered_at = Some(a.clock),
                                          !.invocations = 1]]

\* lines 144-150: the handler up to the await of process_message; nothing is
\* awaited between the read and the write of request_count
Enter(a, r, message) ==
    [a EXCEPT !.last_request_time = Some(a.clock),
              !.request_count = @ + 1,
              !.admitted = Append(@, r),
              !.req[r] = [NoRequest EXCEPT !.pc = "processing",
                                          !.message = message,
                                          !.entered_at = Some(a.clock),
                                          !.invocations = 1]]

\* mutant: an error is answered with a fixed apology instead of a 500
ChatResultApology(message, outcome) ==
    IF outcome.kind = "return"
    THEN HttpResponse(200, outcome.text, Some(message.text), <<>>)
    ELSE HttpResponse(200, "I apologize", Some(message.text), <<>>)

\* lines 156-172: the ChatResponse, or the HTTPException of the except branch
ChatResult(message, outcome) ==
    IF outcome.kind = "return"
    THEN HttpResponse(200, outcome.text, Some(message.text), <<>>)
    ELSE HttpResponse(500, "", None, <<"Processing error: ", outcome.text>>)

\* POST /chat arrives with this message
Chat(r, message) ==
    /\ agent.req[r].pc = "new"
    /\ \A q \in Reqs : q < r => agent.req[q].pc # "new"
    /\ agent' = IF ChatRequestValid(message)
                THEN Enter(agent, r, message)
                ELSE [agent EXCEPT !.req[r] =
                         [NoRequest EXCEPT !.pc = "rejected",
                                           !.message = message,
                                           !.response = HttpResponse(422, "", None, <<>>)]]
    /\ UNCHANGED <<fs, framework_backups, migration_backups, now, pc, call, result,
                   runs, listing>>
    /\ UNCHANGED <<llm, life, parent, capabilities>>

\* process_message of request r has ended
ProcessMessageDone(r, outcome) ==
    /\ agent.req[r].pc = "processing"
    /\ agent' = [agent EXCEPT !.req[r].pc = "responded",
                              !.req[r].outcome = outcome,
                              !.req[r].response = ChatResult(agent.req[r].message, outcome)]
    /\ UNCHANGED <<fs, framework_backups, migration_backups, now, pc, call, result,
                   runs, listing>>
    /\ UNCHANGED <<llm, life, parent, capabilities>>

\* the clock datetime.utcnow() reads goes on
ClockTick ==
    /\ agent.clock < MaxClock
    /\ agent' = [agent EXCEPT !.clock = @ + 1]
    /\ UNCHANGED <<fs, framework_backups, migration_backups, now, pc, call, result,
                   runs, listing>>
    /\ UNCHANGED <<llm, life, parent, capabilities>>

ChatNext ==
    \/ \E r \in Reqs, message \in ChatMessages : Chat(r, message)
    \/ \E r \in Reqs, outcome \in ProcessOutcomes : ProcessMessageDone(r, outcome)
    \/ ClockTick

ChatSpec == ListingInit /\ [][ChatNext]_vars

(***************************************************************************)
(* An LLM-enabled agent (the LLM specification): POST /chat on a          *)
(* BaseLLMAgent.  process_message awaits LLMClient.chat, which awaits the  *)
(* provider adapter under asyncio.wait_for.                                *)
(*   llm.call[r].pc: idle -> pending -> done                               *)
(***************************************************************************)
\* LLMConfig.timeout_seconds values looked at (Field(default=30.0, ge=1.0))
MaxTimeout == 2

LLMProvider == {"anthropic", "openai"}

\* the default value of LLMConfig.models
models ==
    [anthropic |-> [fast |-> "claude-3-haiku-20240307",
                    smart |-> "claude-3-sonnet-20240229",
                    premium |-> "claude-3-opus-20240229"],
     openai |-> [fast |-> "gpt-3.5-turbo",
                 smart |-> "gpt-4-turbo-preview",
                 premium |-> "gpt-4"]]

LLMConfig(provider, model_tier, timeout_seconds) ==
    [provider |-> provider, model_tier |-> model_tier,
     timeout_seconds |-> timeout_seconds]

\* dict.get(key, default) on a record
dict_get(d, key, default) == IF key \in DOMAIN d THEN d[key] ELSE default

\* mutant: an unknown tier falls back to the provider's fast model
get_model_name_per_provider(config) ==
    dict_get(dict_get(models, config.provider, <<>>), config.model_tier,
             dict_get(models, config.provider, <<>>).fast)

\* self.models.get(self.provider.value, {}).get(self.model_tier, <default>)
get_model_name(config) ==
    dict_get(dict_get(models, config.provider, <<>>), config.model_tier,
             "claude-3-haiku-20240307")

\* an exception: its class and str(e)
Error(type, msg) == [type |-> type, msg |-> msg]

\* what an awaited call ends in; a returned value is Some(text) or None
Returns(value) == [kind |-> "return", value |-> value]
Raises(e) == [kind |-> "raise", e |-> e]
Cancelled == [kind |-> "cancelled"]

\* what the SDK's create call can end in: a completion, a completion without
\* text (OpenAI's message.content is optional), an API error, a time-out of the
\* SDK's own
ApiOutcomes ==
    {Returns(Some("OK")), Returns(None),
     Raises(Error("APIError", <<"overloaded">>)),
     Raises(Error("TimeoutError", <<>>))}

Package(provider) == provider

\* the k-th object the SDK's client class has constructed
Client(provider, k) == <<provider, "client", k>>

\* mutant: a client is constructed at every call
_get_client_eager(self) ==
    IF self.sdk
    THEN [self |-> [self EXCEPT !.client = Client(self.config.provider,
                                                  self.constructed + 1),
                                !.constructed = @ + 1],
          out |-> Returns(Client(self.config.provider, self.constructed + 1))]
    ELSE [self |-> self,
          out |-> Raises(Error("ImportError",
                      <<Package(self.config.provider),
                        " package not installed. Install with: pip install ",
                        Package(self.config.provider)>>))]

\* _get_client: the adapter after the call and what the call ends in.  While
\* self.client is None the SDK is imported and a client constructed and kept;
\* a failed import leaves self.client as it is
_get_client(self) ==
    IF self.client # None THEN [self |-> self, out |-> Returns(self.client)]
    ELSE IF self.sdk
    THEN [self |-> [self EXCEPT !.client = Client(self.config.provider,
                                                  self.constructed + 1),
                                !.constructed = @ + 1],
          out |-> Returns(Client(self.config.provider, self.constructed + 1))]
    ELSE [self |-> self,
          out |-> Raises(Error("ImportError",
                      <<Package(self.config.provider),
                        " package not installed. Install with: pip install ",
                        Package(self.config.provider)>>))]

ApiErrorPrefix(provider) ==
    IF provider = "anthropic" THEN "Anthropic API error: " ELSE "OpenAI API error: "

\* AnthropicProvider.chat / OpenAIProvider.chat once the SDK call has ended:
\* 'except Exception' wraps an error; a cancellation passes through
ProviderChat(provider, api) ==
    IF api.kind = "raise"
    THEN Raises(Error("Exception", <<ApiErrorPrefix(provider)>> \o api.e.msg))
    ELSE api

\* asyncio.wait_for: the task's outcome, or TimeoutError once the task was
\* cancelled by the timer
wait_for(task) ==
    IF task.kind = "cancelled" THEN Raises(Error("TimeoutError", <<>>)) ELSE task

\* str() of a float that holds a whole number
str_float(x) == <<x, ".0">>

\* mutant: a time-out is reported like any other failure
LLMClient_chat_generic(config, outcome) ==
    IF outcome.kind = "return" THEN outcome
    ELSE Raises(Error("Exception", <<"LLM error: ">> \o outcome.e.msg))

\* LLMClient.chat lines 227-237, outcome being what wait_for ended in
LLMClient_chat(config, outcome) ==
    IF outcome.kind = "return" THEN outcome
    ELSE IF outcome.e.type = "TimeoutError"
    THEN Raises(Error("Exception", <<"LLM request timeout after ">>
                                     \o str_float(config.timeout_seconds) \o <<"s">>))
    ELSE Raises(Error("Exception", <<"LLM error: ">> \o outcome.e.msg))

\* the fallback response of BaseLLMAgent.process_message (line 104)
Apology(name) ==
    <<"I apologize, but I'm experiencing technical difficulties. As ", name,
      ", I'm temporarily unable to process your request. Please try again later.">>

\* mutant: the error of the LLM client is passed on
process_message_raising(name, chat) ==
    IF chat.kind = "return" THEN chat ELSE Raises(chat.e)

\* BaseLLMAgent.process_message lines 78-104, chat being what
\* llm_client.chat ended in
process_message(name, chat) ==
    IF chat.kind = "return" THEN chat ELSE Returns(Some(Apology(name)))

\* base.py lines 150-172 for what process_message ended in: a response that is
\* not a str is refused by ChatResponse, inside the try
HandlerOutcome(pm) ==
    IF pm.kind = "raise" THEN [kind |-> "raise", text |-> pm.e.msg]
    ELSE IF pm.value = None THEN [kind |-> "raise", text |-> <<"ValidationError">>]
    ELSE [kind |-> "return", text |-> pm.value[1]]

\* the call of request r ends: task is what the provider task ended in
Answered(l, a, r, task) ==
    LET chat == LLMClient_chat(l.config, wait_for(task))
        pm == process_message(l.name, chat)
    IN  [llm |-> [l EXCEPT !.call[r].pc = "done",
                           !.call[r].cancelled = (task.kind = "cancelled"),
                           !.call[r].chat = chat,
                           !.call[r].text = pm],
         agent |-> [a EXCEPT !.req[r].pc = "responded",
                             !.req[r].outcome = HandlerOutcome(pm),
                             !.req[r].response =
                                 ChatResult(a.req[r].message, HandlerOutcome(pm))]]

\* the provider task up to its first wait: without the SDK _get_client raises
\* and the call ends at once; with it the request is sent and wait_for's timer
\* is set
Started(l, a, r) ==
    IF _get_client(l).out.kind = "raise"
    THEN Answered(_get_client(l).self, a, r, _get_client(l).out)
    ELSE [llm |-> [_get_client(l).self EXCEPT
                       !.call[r].pc = "pending",
                       !.call[r].used = _get_client(l).out.value,
                       !.call[r].deadline = l.time + l.config.timeout_seconds],
          agent |-> a]

\* POST /chat arrives at the LLM-enabled agent
LlmChat(r, message) ==
    /\ agent.req[r].pc = "new"
    /\ \A q \in Reqs : q < r => agent.req[q].pc # "new"
    /\ IF ChatRequestValid(message)
       THEN /\ llm' = Started(llm, Enter(agent, r, message), r).llm
            /\ agent' = Started(llm, Enter(agent, r, message), r).agent
       ELSE /\ agent' = [agent EXCEPT !.req[r] =
                            [NoRequest EXCEPT !.pc = "rejected",
                                              !.message = message,
                                              !.response = HttpResponse(422, "", None, <<>>)]]
            /\ UNCHANGED llm
    /\ UNCHANGED <<fs, framework_backups, migration_backups, now, pc, call, result,
                   runs, listing, life, parent, capabilities>>

\* the SDK call of request r has ended before wait_for's timer was handled
ProviderDone(r, api) ==
    /\ llm.call[r].pc = "pending"
    /\ llm' = Answered([llm EXCEPT !.call[r].api = api], agent, r,
                       ProviderChat(llm.config.provider, api)).llm
    /\ agent' = Answered([llm EXCEPT !.call[r].api = api], agent, r,
                         ProviderChat(llm.config.provider, api)).agent
    /\ UNCHANGED <<fs, framework_backups, migration_backups, now, pc, call, result,
                   runs, listing, life, parent, capabilities>>

\* wait_for's timer of request r is handled: the provider task is cancelled at
\* its await, which 'except Exception' does not catch
TimerFires(r) ==
    /\ llm.call[r].pc = "pending"
    /\ llm.time >= llm.call[r].deadline
    /\ llm' = Answered(llm, agent, r, ProviderChat(llm.config.provider, Cancelled)).llm
    /\ agent' = Answered(llm, agent, r, ProviderChat(llm.config.provider, Cancelled)).agent
    /\ UNCHANGED <<fs, framework_backups, migration_backups, now, pc, call, result,
                   runs, listing, life, parent, capabilities>>

\* a second of the event loop's clock passes
LlmTick ==
    /\ llm.time < MaxClock
    /\ llm' = [llm EXCEPT !.time = @ + 1]
    /\ UNCHANGED <<fs, framework_backups, migration_backups, now, pc, call, result,
                   runs, listing, agent, life, parent, capabilities>>

AgentNames == {"Helper", "Marketing Assistant"}

LLMConfigs ==
    {LLMConfig(p, "fast", t) : p \in LLMProvider, t \in 1..MaxTimeout}

LlmInit ==
    /\ fs = EmptyDir
    /\ framework_backups = <<>>
    /\ migration_backups = <<>>
    /\ now = 0
    /\ pc = [c \in Calls |-> "idle"]
    /\ call = [c \in Calls |-> NoCall]
    /\ result = [c \in Calls |-> NoResult]
    /\ runs = <<>>
    /\ listing = ListingIdle
    /\ agent = AgentIdle
    /\ llm \in {[LlmIdle EXCEPT !.config = c, !.name = n, !.sdk = s] :
                c \in LLMConfigs, n \in AgentNames, s \in BOOLEAN}
    /\ life = LifeIdle
    /\ parent = NoParent
    /\ capabilities = NoCapabilities

LlmNext ==
    \/ \E r \in Reqs, message \in ChatMessages : LlmChat(r, message)
    \/ \E r \in Reqs, api \in ApiOutcomes : ProviderDone(r, api)
    \/ \E r \in Reqs : TimerFires(r)
    \/ LlmTick

LlmSpec == LlmInit /\ [][LlmNext]_vars


(***************************************************************************)
(* Configuration objects (the configuration specification): AgentConfig   *)
(* and LLMConfig are constructed and asked, one call after the other.     *)
(***************************************************************************)
\* AgentConfig.port: Field(..., ge=1000, le=65535)
port_ge == 1000
port_le == 65535

\* the keyword arguments given to AgentConfig(...); port None: not given
AgentConfigArgs(name, slug, description, port) ==
    [name |-> name, slug |-> slug, description |-> description, port |-> port]

\* mutant: the lower limit is exclusive
AgentConfigValidExclusive(kwargs) ==
    /\ kwargs.name # None /\ kwargs.slug # None /\ kwargs.description # None
    /\ kwargs.port # None
    /\ kwargs.port[1] > port_ge /\ kwargs.port[1] <= port_le

\* the validation of the AgentConfig model: the four fields without default
\* are required, and port has its two limits
AgentConfigValid(kwargs) ==
    /\ kwargs.name # None /\ kwargs.slug # None /\ kwargs.description # None
    /\ kwargs.port # None
    /\ kwargs.port[1] >= port_ge /\ kwargs.port[1] <= port_le

Ports == {port_ge - 1, port_ge, port_ge + 1, port_le - 1, port_le, port_le + 1, 0, -1}

AgentConfigInputs ==
    {AgentConfigArgs(n, s, d, p) :
        n \in {None, Some("Helper")}, s \in {None, Some("helper")},
        d \in {None, Some("An assistant")}, p \in {None} \cup {Some(q) : q \in Ports}}

\* model_tier is any str
Tiers == {"fast", "smart", "premium", "", "FAST", "turbo"}

\* AgentConfig(**kwargs)
NewAgentConfig(kwargs) ==
    /\ Len(runs) < MaxRuns
    /\ runs' = Append(runs, [op |-> "AgentConfig", kwargs |-> kwargs,
                             result |-> IF AgentConfigValid(kwargs) THEN "ok"
                                        ELSE "ValidationError"])
    /\ UNCHANGED <<fs, framework_backups, migration_backups, now, pc, call, result,
                   listing, agent, llm, life, parent, capabilities>>

\* LLMConfig(provider=..., model_tier=...).get_model_name()
GetModelName(provider, model_tier) ==
    /\ Len(runs) < MaxRuns
    /\ runs' = Append(runs, [op |-> "get_model_name",
                             provider |-> provider, model_tier |-> model_tier,
                             result |-> get_model_name(LLMConfig(provider, model_tier, 30))])
    /\ UNCHANGED <<fs, framework_backups, migration_backups, now, pc, call, result,
                   listing, agent, llm, life, parent, capabilities>>

ConfigNext ==
    \/ \E kwargs \in AgentConfigInputs : NewAgentConfig(kwargs)
    \/ \E provider \in LLMProvider, model_tier \in Tiers :
           GetModelName(provider, model_tier)

ConfigSpec == ListingInit /\ [][ConfigNext]_vars


(***************************************************************************)
(* The application's lifespan (the lifecycle specification).  The server  *)
(* enters the lifespan context before it accepts connections, routes      *)
(* /chat requests while the context is open, and leaves the context when  *)
(* it stops.  life.hooks lists the hooks awaited so far.                   *)
(*   life.pc: off -> startup -> serving -> shutdown -> stopped            *)
(***************************************************************************)
\* the hooks end normally or raise
HookOutcomes == {"ok", "raise"}

\* the server enters the lifespan context: lines 101-102, on_startup is awaited
ServerStart ==
    /\ life.pc = "off"
    /\ life' = [life EXCEPT !.pc = "startup", !.hooks = Append(@, "on_startup")]
    /\ UNCHANGED <<fs, framework_backups, migration_backups, now, pc, call, result,
                   runs, listing, agent, llm, parent, capabilities>>

\* on_startup has ended: the generator reaches its yield and the server starts
\* to route requests, or the error leaves the context and the server exits
StartupDone(outcome) ==
    /\ life.pc = "startup"
    /\ life' = IF outcome = "ok"
               THEN [life EXCEPT !.pc = "serving", !.startup = "ok"]
               ELSE [life EXCEPT !.pc = "stopped", !.startup = "failed"]
    /\ UNCHANGED <<fs, framework_backups, migration_backups, now, pc, call, result,
                   runs, listing, agent, llm, parent, capabilities>>

\* the body of the lifespan context ends (lines 103-104).  Left normally, the
\* generator goes on after its yield and awaits on_shutdown; left with an
\* error, the error is raised at the yield, which nothing encloses, and the
\* generator ends there
LeaveContext(l, how) ==
    IF how = "ok"
    THEN [l EXCEPT !.pc = "shutdown", !.serving = how,
                   !.hooks = Append(@, "on_shutdown")]
    ELSE [l EXCEPT !.pc = "stopped", !.serving = how]

\* the server stops: it has answered the requests in flight and sends the
\* shutdown message
ServerStop ==
    /\ life.pc = "serving"
    /\ \A r \in Reqs : agent.req[r].pc # "processing"
    /\ life' = LeaveContext(life, "ok")
    /\ UNCHANGED <<fs, framework_backups, migration_backups, now, pc, call, result,
                   runs, listing, agent, llm, parent, capabilities>>

\* the serving interval ends with an error raised in the lifespan context
ServingError ==
    /\ life.pc = "serving"
    /\ life' = LeaveContext(life, "error")
    /\ UNCHANGED <<fs, framework_backups, migration_backups, now, pc, call, result,
                   runs, listing, agent, llm, parent, capabilities>>

\* on_shutdown has ended (lines 104-105)
ShutdownDone(outcome) ==
    /\ life.pc = "shutdown"
    /\ life' = [life EXCEPT !.pc = "stopped"]
    /\ UNCHANGED <<fs, framework_backups, migration_backups, now, pc, call, result,
                   runs, listing, agent, llm, parent, capabilities>>

\* requests are routed, and their handlers go on, while the context is open
LifeNext ==
    \/ ServerStart
    \/ \E outcome \in HookOutcomes : StartupDone(outcome)
    \/ \E r \in Reqs, message \in ChatMessages : life.pc = "serving" /\ Chat(r, message)
    \/ \E r \in Reqs, outcome \in ProcessOutcomes :
           life.pc = "serving" /\ ProcessMessageDone(r, outcome)
    \/ life.pc = "serving" /\ ClockTick
    \/ ServerStop
    \/ ServingError
    \/ \E outcome \in HookOutcomes : ShutdownDone(outcome)

LifeSpec == ListingInit /\ [][LifeNext]_vars


(***************************************************************************)
(* create_test_clone (the clone specification).  parent maps the name of  *)
(* each directory next to the agent root, and of the agent root itself,   *)
(* to its tree: the set of its entries.  An entry is its path below the    *)
(* directory and its kind; a name is its stem and its suffix.             *)
(***************************************************************************)
Name(stem, suffix) == <<stem, suffix>>
File(path) == [path |-> path, kind |-> "file"]
Dir(path) == [path |-> path, kind |-> "dir"]

\* the agent root's directory name (os.getcwd()) and AgentConfig.slug
AGENT == <<"agent">>
slug == "helper"

ignore_globs == {".pyc", ".log"}
ignore_names == {"__pycache__", ".pytest_cache", ".framework_backups"}

\* shutil.ignore_patterns('__pycache__', '*.pyc', '.pytest_cache',
\* '.framework_backups', '*.log'): fnmatch on the entry's name, whatever its kind
ignored(e) ==
    \/ e.path[Len(e.path)][2] \in ignore_globs
    \/ e.path[Len(e.path)] \in {Name(n, "") : n \in ignore_names}

\* the entries of directory dir (a path; <<>> is the tree's top)
listdir(tree, dir) ==
    {e \in tree : Len(e.path) = Len(dir) + 1 /\ SubSeq(e.path, 1, Len(dir)) = dir}

RECURSIVE copytree(_, _)
\* shutil.copytree below dir: every entry of dir that is not ignored is copied,
\* a directory with what copytree makes of it
copytree(tree, dir) ==
    UNION {{e} \cup (IF e.kind = "dir" THEN copytree(tree, e.path) ELSE {}) :
           e \in {x \in listdir(tree, dir) : ~ignored(x)}}

\* the entries of tree moved below the directory at path
Below(path, tree) == {[e EXCEPT !.path = path \o @] : e \in tree}

\* the tree at clone_path, a sequence of names: its first name is a directory
\* of parent, the others lead into that directory
TreeAt(dirs, clone_path) ==
    LET top == <<clone_path[1]>>
        inner == [i \in 1..(Len(clone_path) - 1) |-> Name(clone_path[i + 1], "")]
    IN  {[e EXCEPT !.path = SubSeq(@, Len(inner) + 1, Len(@))] :
            e \in {x \in dirs[top] : /\ Len(x.path) > Len(inner)
                                     /\ SubSeq(x.path, 1, Len(inner)) = inner}}

\* does clone_path exist?
PathExists(dirs, clone_path) ==
    LET top == <<clone_path[1]>>
        inner == [i \in 1..(Len(clone_path) - 1) |-> Name(clone_path[i + 1], "")]
    IN  /\ top \in DOMAIN dirs
        /\ inner = <<>> \/ \E e \in dirs[top] : e.path = inner

\* the directories after copytree has made clone_path and filled it
WithClone(dirs, clone_path, copy) ==
    LET top == <<clone_path[1]>>
        inner == [i \in 1..(Len(clone_path) - 1) |-> Name(clone_path[i + 1], "")]
    IN  [d \in DOMAIN dirs \cup {top} |->
            IF d # top THEN dirs[d]
            ELSE IF inner = <<>> THEN copy
            ELSE dirs[d] \cup {Dir(inner)} \cup Below(inner, copy)]

\* lines 384-396: clone_name is None or the sequence of the names the given
\* string is made of; the entries of the agent root are listed before
\* clone_path is made
create_test_clone(dirs, clone_name, timestamp) ==
    LET clone_path == IF clone_name = None THEN <<slug \o "_test_" \o timestamp>>
                      ELSE clone_name[1]
    IN  IF PathExists(dirs, clone_path)
        THEN [dirs |-> dirs, raised |-> "FileExistsError", clone_path |-> clone_path]
        ELSE [dirs |-> WithClone(dirs, clone_path, copytree(dirs[AGENT], <<>>)),
              raised |-> "", clone_path |-> clone_path]

\* the timestamp of datetime.now().strftime("%Y%m%d_%H%M%S")
strftime(t) == IF t = 0 THEN "20240101_000000" ELSE "20240101_000001"

\* POST /fwk/clone-test
CloneForTesting(clone_name) ==
    /\ Len(runs) < MaxRuns
    /\ parent' = create_test_clone(parent, clone_name, strftime(now)).dirs
    /\ runs' = Append(runs,
                      [op |-> "create_test_clone", clone_name |-> clone_name,
                       before |-> parent,
                       after |-> create_test_clone(parent, clone_name, strftime(now)).dirs,
                       raised |-> create_test_clone(parent, clone_name, strftime(now)).raised,
                       result |-> create_test_clone(parent, clone_name,
                                                    strftime(now)).clone_path])
    /\ UNCHANGED <<fs, framework_backups, migration_backups, now, pc, call, result,
                   listing, agent, llm, life, capabilities>>

\* the entries agent roots are made of
Pool ==
    {File(<<Name("main", ".py")>>),
     File(<<Name("run", ".log")>>),
     Dir(<<Name("app", "")>>),
     File(<<Name("app", ""), Name("x", ".pyc")>>),
     Dir(<<Name("app", ""), Name("__pycache__", "")>>),
     Dir(<<Name("data", ".log")>>),
     File(<<Name("data", ".log"), Name("keep", ".txt")>>),
     Dir(<<Name(".framework_backups", "")>>),
     File(<<Name(".framework_backups", ""), Name("requirements", ".txt")>>),
     Dir(<<Name(".pytest_cache", "")>>)}

\* every entry but a top one lies in a directory of the tree
IsTree(tree) ==
    \A e \in tree :
        Len(e.path) > 1 => Dir(SubSeq(e.path, 1, Len(e.path) - 1)) \in tree

\* FrameworkManager.__init__ has made .framework_backups (line 75)
AgentRoots ==
    {t \in SUBSET Pool : IsTree(t) /\ Dir(<<Name(".framework_backups", "")>>) \in t}

CloneNames ==
    {None, Some(<<"clone">>), Some(<<"agent", "inner">>), Some(<<"agent">>)}

CloneInit ==
    /\ fs = EmptyDir
    /\ framework_backups = <<>>
    /\ migration_backups = <<>>
    /\ now = 0
    /\ pc = [c \in Calls |-> "idle"]
    /\ call = [c \in Calls |-> NoCall]
    /\ result = [c \in Calls |-> NoResult]
    /\ runs = <<>>
    /\ listing = ListingIdle
    /\ agent = AgentIdle
    /\ llm = LlmIdle
    /\ life = LifeIdle
    /\ parent \in {[d \in {AGENT} |-> t] : t \in AgentRoots}
    /\ capabilities = NoCapabilities

CloneNext ==
    \/ \E clone_name \in CloneNames : CloneForTesting(clone_name)
    \/ Tick

CloneSpec == CloneInit /\ [][CloneNext]_vars


(***************************************************************************)
(* The capability list (the capability specification): the list after     *)
(* the construction of a base or of an LLM-enabled agent, and the calls   *)
(* of add_capability made on it afterwards.                                *)
(***************************************************************************)
\* AgentCapability(name=..., version=..., description=..., enabled=True)
AgentCapability(name, version, description, enabled) ==
    [name |-> name, version |-> version, description |-> description,
     enabled |-> enabled]

\* mutant: a capability whose name is in the list is not added again
add_capability_unique(caps, capability) ==
    IF \E i \in 1..Len(caps) : caps[i].name = capability.name THEN caps
    ELSE Append(caps, capability)

\* self.capabilities.append(capability)
add_capability(caps, capability) == Append(caps, capability)

\* self.capabilities = [] followed by the extend of _register_base_capabilities
_register_base_capabilities ==
    <<>> \o
    << AgentCapability("chat", "1.0.0", Some("Basic conversational capabilities"), TRUE),
       AgentCapability("health_check", "1.0.0",
                       Some("Health monitoring and status reporting"), TRUE),
       AgentCapability("status_reporting", "1.0.0",
                       Some("Detailed agent introspection"), TRUE),
       AgentCapability("framework_management", "1.1.0",
                       Some("Self-update and framework version management"), TRUE),
       AgentCapability("test_cloning", "1.1.0",
                       Some("Create test clones for safe framework updates"), TRUE) >>

\* BaseLLMAgent.__init__: the two LLM capabilities are added to the base list
_register_llm_capabilities(caps, config) ==
    add_capability(
        add_capability(caps,
            AgentCapability("llm_conversation", "1.1.0",
                            Some(<<"LLM-powered conversations using ", config.provider,
                                   " ", get_model_name(config)>>), TRUE)),
        AgentCapability("context_awareness", "1.1.0",
                        Some("Contextual understanding and response generation"), TRUE))

\* the capabilities a concrete agent adds: new names, names in the list already
NewCapabilities ==
    {AgentCapability(n, v, None, e) :
        n \in {"chat", "search", "llm_conversation"}, v \in {"1.0.0", "2.0.0"},
        e \in BOOLEAN}

\* agent.add_capability(capability)
AddCapability(capability) ==
    /\ Len(runs) < MaxRuns
    /\ capabilities' = add_capability(capabilities, capability)
    /\ runs' = Append(runs, [op |-> "add_capability", capability |-> capability,
                             before |-> capabilities,
                             after |-> add_capability(capabilities, capability)])
    /\ UNCHANGED <<fs, framework_backups, migration_backups, now, pc, call, result,
                   listing, agent, llm, life, parent>>

\* the agent is constructed: a base agent, or an LLM-enabled one
CapInit ==
    /\ fs = EmptyDir
    /\ framework_backups = <<>>
    /\ migration_backups = <<>>
    /\ now = 0
    /\ pc = [c \in Calls |-> "idle"]
    /\ call = [c \in Calls |-> NoCall]
    /\ result = [c \in Calls |-> NoResult]
    /\ runs = <<>>
    /\ listing = ListingIdle
    /\ agent = AgentIdle
    /\ life = LifeIdle
    /\ parent = NoParent
    /\ \/ /\ llm = LlmIdle
          /\ capabilities = _register_base_capabilities
       \/ \E c \in LLMConfigs :
             /\ llm = [LlmIdle EXCEPT !.config = c, !.name = "Helper", !.sdk = TRUE]
             /\ capabilities = _register_llm_capabilities(_register_base_capabilities, c)

CapNext == \E capability \in NewCapabilities : AddCapability(capability)

CapSpec == CapInit /\ [][CapNext]_vars


(***************************************************************************)
(* The manifest rewrite on its own (the manifest specification), on every *)
(* short manifest over four kinds of line, with either line ending.       *)
(***************************************************************************)
\* a requirement, the framework's requirement, a comment that names the
\* framework's repository, and the empty line
ManifestLines ==
    {<<"fastapi>=0.100">>,
     <<"git+https://github.com/Holy-Bird-Animation-Studio/", FrameworkToken,
       "@", "v", "1", ".", "0", ".", "0">>,
     <<"# pinned: ", FrameworkToken>>,
     <<>>}

ManifestFiles ==
    {Absent, Binary}
        \cup {Text(d) : d \in SeqsUpTo(ManifestLines, MaxLen)}
        \cup {TextCRLF(d) : d \in SeqsUpTo(ManifestLines, MaxLen)}

ManifestTags == {<<"v">> \o V110, <<"v">> \o V130}

ManifestInit ==
    /\ fs \in {[f \in FileNames |->
                   CASE f = MAIN -> Absent
                     [] f = REQ -> r
                     [] f = LOCK -> Text(<<"v">> \o V100 \o <<"\n">>)
                     [] f = DOC -> Text(<<"# agent notes">>)] :
               r \in ManifestFiles}
    /\ framework_backups = <<>>
    /\ migration_backups = <<>>
    /\ now = 0
    /\ pc = [c \in Calls |-> "idle"]
    /\ call = [c \in Calls |-> NoCall]
    /\ result = [c \in Calls |-> NoResult]
    /\ runs = <<>>
    /\ listing = ListingIdle
    /\ agent = AgentIdle
    /\ llm = LlmIdle
    /\ life = LifeIdle
    /\ parent = NoParent
    /\ capabilities = NoCapabilities

\* await self._update_requirements_file(target_tag)
UpdateRequirements(target_tag) ==
    /\ Len(runs) < MaxRuns
    /\ fs' = _update_requirements_file(fs, target_tag).tree
    /\ runs' = Append(runs, [op |-> "_update_requirements_file",
                             target_tag |-> target_tag,
                             before |-> fs,
                             after |-> _update_requirements_file(fs, target_tag).tree,
                             raised |-> _update_requirements_file(fs, target_tag).raised])
    /\ UNCHANGED <<framework_backups, migration_backups, now, pc, call, result,
                   listing, agent, llm, life, parent, capabilities>>

ManifestNext == \E target_tag \in ManifestTags : UpdateRequirements(target_tag)

ManifestSpec == ManifestInit /\ [][ManifestNext]_vars


(***************************************************************************)
(* Concurrent updates (the concurrency specification): the /fwk/update    *)
(* handlers run on one event loop, and a call gives way to the others     *)
(* wherever it waits for a subprocess.  The actions are those of the      *)
(* update specification; a call may enter while others are in progress.   *)
(***************************************************************************)
\* an agent root in good order, at 1.0.0, with or without the source file
ConcInit ==
    /\ fs \in {[f \in FileNames |->
                   CASE f = MAIN -> m
                     [] f = REQ ->
                            Text(<< <<"fastapi>=0.100">>,
                                    <<"git+https://github.com/Holy-Bird-Animation-Studio/",
                                      FrameworkToken, "@", "v", "1", ".", "0", ".", "0">>,
                                    <<>> >>)
                     [] f = LOCK -> Text(<<"v">> \o V100 \o <<"\n">>)
                     [] f = DOC -> Text(<<"# agent notes">>)] :
               m \in Sources}
    /\ framework_backups = <<>>
    /\ migration_backups = <<>>
    /\ now = 0
    /\ pc = [c \in Calls |-> "idle"]
    /\ call = [c \in Calls |-> NoCall]
    /\ result = [c \in Calls |-> NoResult]
    /\ runs = <<>>
    /\ listing = ListingIdle
    /\ agent = AgentIdle
    /\ llm = LlmIdle
    /\ life = LifeIdle
    /\ parent = NoParent
    /\ capabilities = NoCapabilities

\* the targets asked for at the same time
ConcTargets == {V110, <<"v">> \o V130}

ConcNext ==
    \/ \E c \in Calls, t \in ConcTargets, rt \in BOOLEAN : update_framework(c, t, rt)
    \/ \E c \in Calls, ok \in BOOLEAN : ReinstallDone(c, ok)
    \/ \E c \in Calls, found \in BOOLEAN : CommandExistsDone(c, found)
    \/ \E c \in Calls, outcome \in {"exit 0", "exit 1", "error"} : TestsDone(c, outcome)
    \/ \E c \in Calls, ok \in BOOLEAN : RollbackAfterTestsDone(c, ok)
    \/ \E c \in Calls, ok \in BOOLEAN : RollbackDone(c, ok)
    \/ \E c \in Calls : Respond(c)

ConcSpec == ConcInit /\ [][ConcNext]_vars


(***************************************************************************)
(* The routes of a running agent (the endpoint specification): GET /,     *)
(* /healthz, /status, /fwk/version and /fwk/migration-info answer in one   *)
(* step; POST /chat, GET /fwk/available, POST /fwk/update and POST         *)
(* /fwk/clone-test are the actions of the specifications above, on one     *)
(* event loop.  runs lists the answers of the one-step routes.             *)
(***************************************************************************)
\* base.py 271-280 (the time-dependent fields, timestamp and uptime_seconds,
\* are left out of the record)
HealthResponse(a) ==
    [status |-> "healthy", agent_slug |-> slug]

\* base.py 282-304 (uptime_seconds and memory_usage_mb are left out)
AgentStatusResponse(a, caps) ==
    [status |-> "healthy", agent_slug |-> slug, capabilities |-> caps,
     last_request |-> a.last_request_time]

\* GET / and GET /healthz
Health(path) ==
    /\ Len(runs) < MaxRuns
    /\ runs' = Append(runs, [op |-> "health", response |-> HealthResponse(agent)])
    /\ UNCHANGED <<fs, framework_backups, migration_backups, now, pc, call, result,
                   listing, agent, llm, life, parent, capabilities>>

\* GET /status
Status ==
    /\ Len(runs) < MaxRuns
    /\ runs' = Append(runs, [op |-> "/status",
                             response |-> AgentStatusResponse(agent, capabilities)])
    /\ UNCHANGED <<fs, framework_backups, migration_backups, now, pc, call, result,
                   listing, agent, llm, life, parent, capabilities>>

\* GET /fwk/version (base.py 179-186)
FwkVersion ==
    /\ Len(runs) < MaxRuns
    /\ runs' = Append(runs, [op |-> "/fwk/version",
                             response |-> [current_version |-> get_current_version(fs)]])
    /\ UNCHANGED <<fs, framework_backups, migration_backups, now, pc, call, result,
                   listing, agent, llm, life, parent, capabilities>>

\* GET /fwk/migration-info?target_version=... (base.py 209-213)
FwkMigrationInfo(target_version) ==
    /\ Len(runs) < MaxRuns
    /\ runs' = Append(runs, [op |-> "/fwk/migration-info",
                             response |-> get_migration_info(get_current_version(fs),
                                              lstrip(target_version, {"v"}))])
    /\ UNCHANGED <<fs, framework_backups, migration_backups, now, pc, call, result,
                   listing, agent, llm, life, parent, capabilities>>

\* the agent constructed (base.py 75-93) on a root in good order at 1.0.0
EndpointInit ==
    /\ fs = [f \in FileNames |->
                CASE f = MAIN -> Text(<<tADP, tLP, tSIG, tRP>>)
                  [] f = REQ -> Text(<< <<"fastapi>=0.100">>, FrameworkLine(<<"v">> \o V100) >>)
                  [] f = LOCK -> Text(<<"v">> \o V100 \o <<"\n">>)
                  [] f = DOC -> Absent]
    /\ framework_backups = <<>>
    /\ migration_backups = <<>>
    /\ now = 0
    /\ pc = [c \in Calls |-> "idle"]
    /\ call = [c \in Calls |-> NoCall]
    /\ result = [c \in Calls |-> NoResult]
    /\ runs = <<>>
    /\ listing = ListingIdle
    /\ agent = AgentIdle
    /\ llm = LlmIdle
    /\ life = LifeIdle
    /\ parent = [d \in {AGENT} |-> {Dir(<<Name(".framework_backups", "")>>),
                                   File(<<Name("main", ".py")>>)}]
    /\ capabilities = _register_base_capabilities

\* the requests sent to the routes
EndpointMessages == {Message(min_length, "a"), NoMessage}
EndpointTags == {<<[keys |-> {"name"}, name |-> <<"v">> \o V110]>>}

EndpointNext ==
    \/ \E r \in Reqs, message \in EndpointMessages : Chat(r, message)
    \/ \E r \in Reqs, outcome \in ProcessOutcomes : ProcessMessageDone(r, outcome)
    \/ ClockTick
    \/ \E path \in {"/", "/healthz"} : Health(path)
    \/ Status
    \/ FwkVersion
    \/ FwkMigrationInfo(<<"v">> \o V110)
    \/ GetAvailableVersions
    \/ TagsDone("error", <<>>)
    \/ \E tags \in EndpointTags : TagsDone("ok", tags)
    \/ ReleaseDone("404")
    \/ Serial(1) /\ update_framework(1, V110, FALSE)
    \/ \E ok \in BOOLEAN : ReinstallDone(1, ok)
    \/ RollbackDone(1, TRUE)
    \/ Respond(1)
    \/ CloneForTesting(None)

EndpointSpec == EndpointInit /\ [][EndpointNext]_vars


(***************************************************************************)
(* Properties of update_framework (specification Spec: one update in      *)
(* flight at a time).                                                      *)
(***************************************************************************)
Returned(c) == pc[c] = "done"

HasEvent(c, step, ok) == \E i \in 1..Len(call[c].log) : call[c].log[i] = Event(step, ok)
Ran(c, step) == HasEvent(c, step, TRUE) \/ HasEvent(c, step, FALSE)

\* the outcomes of the call's rollback reinstalls, in order
IsRollback(e) == e.step = "rollback"
Rollbacks(c) == SelectSeq(call[c].log, IsRollback)

\* the directory the call's backup_path names
BackupOf(c) == framework_backups[call[c].backup_path]

\* every file of the call's backup directory has the backup's content in the agent root
Restored(c) == \A f \in FileNames : exists(BackupOf(c)[f]) => fs[f] = BackupOf(c)[f]

TestsFailed(c) == HasEvent(c, "tests", FALSE)

\* C1 as stated: whenever the test probe reports failure, the call has rolled
\* back from its backup and returns success = false, rollback_available = true
\* and the test results attached.
C1_Original ==
    \A c \in Calls :
        Returned(c) /\ TestsFailed(c) =>
            /\ Restored(c)
            /\ ~result[c].success
            /\ result[c].rollback_available
            /\ result[c].test_results = call[c].test_results

\* C1, amended: when the test probe reports failure the files of the call's
\* backup are restored and the call returns success = false; the result has
\* rollback_available = true and the test results attached exactly when the
\* reinstall of that rollback succeeded; when it failed, the except handler
\* rolls back a second time and the result carries no test results and
\* rollback_available = whether the second rollback's reinstall succeeded.
C1_TestFailureRollsBack ==
    \A c \in Calls :
        Returned(c) /\ TestsFailed(c) =>
            /\ Restored(c)
            /\ ~result[c].success
            /\ Len(Rollbacks(c)) \in {1, 2}
            /\ Rollbacks(c)[1].ok =>
                   /\ Len(Rollbacks(c)) = 1
                   /\ result[c].rollback_available
                   /\ result[c].test_results = call[c].test_results
                   /\ result[c].test_results # <<>>
            /\ ~Rollbacks(c)[1].ok =>
                   /\ Len(Rollbacks(c)) = 2
                   /\ result[c].test_results = <<>>
                   /\ result[c].rollback_available = Rollbacks(c)[2].ok

\* a call whose tests failed, rolled back and returned the test results
C1_Witness ==
    \E c \in Calls :
        /\ Returned(c) /\ TestsFailed(c)
        /\ exists(call[c].pre[LOCK]) /\ fs[LOCK] = call[c].pre[LOCK]
        /\ result[c].rollback_available
        /\ result[c].test_results # <<>>
        /\ ~result[c].test_results[1].success

\* a forward step of the call after the backup that failed
ForwardSteps == <<"backup", "manifest", "reinstall", "migration", "lock", "tests">>
StepFailed(c) ==
    \E i \in 2..Len(ForwardSteps) : HasEvent(c, ForwardSteps[i], FALSE)

\* C2: whenever a step after the backup (manifest rewrite, reinstall, code
\* migration, lock-file write, test run) fails, a rollback from the call's
\* backup is attempted and the result has success = false, with
\* rollback_available = true exactly when that rollback completed without error.
C2_AnyFailureRollsBack ==
    \A c \in Calls :
        Returned(c) /\ StepFailed(c) =>
            /\ Ran(c, "restore")
            /\ ~result[c].success
            /\ Len(Rollbacks(c)) >= 1
            /\ result[c].rollback_available = Rollbacks(c)[Len(Rollbacks(c))].ok

HasFrameworkLine(file) ==
    file.kind = "text" /\ \E i \in 1..Len(file.data) : IsFrameworkLine(file.data[i])

\* C3 as stated: a call made with the manifest absent, or with no line that
\* references hg-agent-fwk.git, propagates an error instead of returning an
\* UpdateResult; that is, every call that returns an UpdateResult found a
\* manifest with a framework line.
C3_Original ==
    \A c \in Calls : Returned(c) => HasFrameworkLine(call[c].pre[REQ])

\* C3, amended: a call made with the manifest absent, or with no line that
\* references hg-agent-fwk.git, does not propagate the error: it restores its
\* backup, runs the rollback reinstall and returns an UpdateResult with
\* success = false whose error_message is the FileNotFoundError's (the
\* ValueError's), rollback_available telling whether that reinstall succeeded;
\* no reinstall of the new version, migration or lock-file write happens and
\* the manifest and the lock file are as before the call.
C3_ManifestErrorsReturned ==
    \A c \in Calls :
        Returned(c) /\ ~HasFrameworkLine(call[c].pre[REQ]) =>
            /\ ~result[c].success
            /\ result[c].error_message =
                   (IF exists(call[c].pre[REQ]) THEN "ValueError" ELSE "FileNotFoundError")
            /\ Ran(c, "restore")
            /\ Len(Rollbacks(c)) = 1
            /\ result[c].rollback_available = Rollbacks(c)[1].ok
            /\ ~Ran(c, "reinstall") /\ ~Ran(c, "migration") /\ ~Ran(c, "lock")
            /\ fs[REQ] = call[c].pre[REQ]
            /\ fs[LOCK] = call[c].pre[LOCK]

\* a call returned a failed UpdateResult for a manifest without a framework line
C3_Witness ==
    \E c \in Calls :
        /\ Returned(c)
        /\ exists(call[c].pre[REQ]) /\ ~HasFrameworkLine(call[c].pre[REQ])
        /\ result[c].error_message = "ValueError"
        /\ result[c].rollback_available

\* C4: if the reinstall subprocess exits non-zero the attempt fails: from then
\* on the migration is never applied to the source tree and framework.lock is
\* never written (both keep their content of before the call), and the call
\* returns success = false.
C4_ReinstallFailureIsFatal ==
    \A c \in Calls :
        HasEvent(c, "reinstall", FALSE) =>
            /\ pc[c] \in {"rollback", "done"}
            /\ ~Ran(c, "migration") /\ ~Ran(c, "lock") /\ ~Ran(c, "tests")
            /\ fs[MAIN] = call[c].pre[MAIN]
            /\ fs[LOCK] = call[c].pre[LOCK]
            /\ Returned(c) => ~result[c].success /\ result[c].error_message = "RuntimeError"

\* a call returned after its reinstall exited non-zero, on a tree the
\* migration would have changed
C4_Witness ==
    \E c \in Calls :
        /\ Returned(c) /\ HasEvent(c, "reinstall", FALSE)
        /\ call[c].current_version = V100 /\ call[c].target_clean = V110
        /\ exists(fs[MAIN])


IsForward(e) == \E i \in 1..Len(ForwardSteps) : e.step = ForwardSteps[i]
\* the forward steps the call has taken so far, in the order it took them
Forward(c) == SelectSeq(call[c].log, IsForward)

\* C5: the steps of every call occur in the order backup, manifest rewrite,
\* reinstall, code migration, lock-file write, tests, and no step runs after
\* one that failed.
C5_StepOrder ==
    \A c \in Calls :
        /\ Len(Forward(c)) <= Len(ForwardSteps)
        /\ \A i \in 1..Len(Forward(c)) :
               /\ Forward(c)[i].step = ForwardSteps[i]
               /\ i < Len(Forward(c)) => Forward(c)[i].ok

\* C6: the rollback copies every file of the backup directory over the
\* agent-root file before it runs the reinstall (while a rollback reinstall is
\* running, and when the failed call has returned, each such file has the
\* backup's content), so after a call that returns success = false the
\* manifest that existed before the call has its content of before the call,
\* whatever the rollback reinstall's exit status.
C6_RollbackRestoresManifest ==
    \A c \in Calls :
        /\ pc[c] \in {"rollback", "rollback_tests"} => Restored(c)
        /\ Returned(c) /\ ~result[c].success =>
               /\ Restored(c)
               /\ exists(call[c].pre[REQ]) => fs[REQ] = call[c].pre[REQ]

\* a failed call whose manifest had been rewritten and whose rollback reinstall failed
C6_Witness ==
    \E c \in Calls :
        /\ Returned(c) /\ ~result[c].success /\ ~result[c].rollback_available
        /\ HasEvent(c, "manifest", TRUE)
        /\ fs[REQ] = call[c].pre[REQ]
        /\ fs[REQ] # _update_requirements_file(fs, call[c].target_tag).tree[REQ]

\* v is d without the white space at its two ends and then without its leading "v"s
IsTrimmed(d, v) ==
    \E i \in 0..Len(d) : \E j \in i..Len(d) : \E k \in i..j :
        /\ \A x \in 1..i : d[x] \in Whitespace
        /\ \A x \in (j + 1)..Len(d) : d[x] \in Whitespace
        /\ i < j => d[i + 1] \notin Whitespace /\ d[j] \notin Whitespace
        /\ \A x \in (i + 1)..k : d[x] = "v"
        /\ k < j => d[k + 1] # "v"
        /\ v = SubSeq(d, k + 1, j)

VersionOf(t, v) ==
    /\ ~exists(t[LOCK]) => v = V100
    /\ t[LOCK].kind = "binary" => v = Unknown
    /\ t[LOCK].kind = "text" => IsTrimmed(t[LOCK].data, v)
    /\ t[LOCK] = Text(<<"v", "1", ".", "2", ".", "0", "\n">>) => v = V120

\* C7: get_current_version returns "1.0.0" when framework.lock does not exist,
\* "unknown" when it cannot be read, and otherwise the content without the white
\* space around it and without the leading 'v' ("v1.2.0\n" gives "1.2.0"): in
\* every state for the agent root as it is, and in every call for the version
\* it read on entry.
C7_CurrentVersion ==
    /\ VersionOf(fs, get_current_version(fs))
    /\ \A c \in Calls :
           pc[c] \notin {"idle", "closed"} => VersionOf(call[c].pre, call[c].current_version)

\* a call that read "1.2.0" from a lock file holding "v1.2.0\n", and an
\* unreadable lock file in the agent root
C7_Witness ==
    \E c \in Calls :
        /\ pc[c] \notin {"idle", "closed"}
        /\ call[c].pre[LOCK] = Text(<<"v", "1", ".", "2", ".", "0", "\n">>)
        /\ call[c].current_version = V120
        /\ exists(fs[LOCK])

\* C8: after update_framework(T) returns success = true, get_current_version()
\* returns T without its leading 'v', which is the result's to_version, and the
\* result's from_version is what get_current_version() returned before the call.
C8_VersionAfterUpdate ==
    \A c \in Calls :
        Returned(c) /\ result[c].success =>
            /\ result[c].to_version = lstrip(call[c].target_version, {"v"})
            /\ get_current_version(fs) = result[c].to_version
            /\ result[c].from_version = get_current_version(call[c].pre)


(***************************************************************************)
(* Properties of MigrationManager (specification MigSpec).                 *)
(***************************************************************************)
\* the last two invocations asked for the transition from -> to, and the
\* first of them returned success
AppliedTwice(from, to) ==
    /\ Len(runs) >= 2
    /\ \A i \in {Len(runs) - 1, Len(runs)} :
           runs[i].from_version = from /\ runs[i].to_version = to
    /\ runs[Len(runs) - 1].result.success

\* the run reports one applied change per step of the migration, each "no changes needed"
ReportsNoChanges(run) ==
    LET migration == find_migration(run.from_version, run.to_version)
        changes == run.result.changes_applied
    IN  /\ ~run.raised /\ run.result.success
        /\ Len(changes) = Len(migration.migration_steps)
        /\ \A i \in 1..Len(changes) :
               /\ changes[i].step = migration.migration_steps[i].name
               /\ changes[i].details.msg = NoChanges

\* the second of two applications in a row changed no file and reported no change
SecondIsNoOp ==
    /\ runs[Len(runs)].after = runs[Len(runs)].before
    /\ ReportsNoChanges(runs[Len(runs)])

\* C9: applying the 1.0.0 -> 1.1.0 migration twice in a row leaves app/main.py
\* with the content it had after the first application, and the second
\* application reports "no changes needed" for both steps.
C9_Idempotent110 ==
    AppliedTwice(V100, V110) =>
        /\ runs[Len(runs)].after[MAIN] = runs[Len(runs) - 1].after[MAIN]
        /\ SecondIsNoOp
        /\ Len(runs[Len(runs)].result.changes_applied) = 2

\* the 1.0.0 -> 1.1.0 migration applied twice to a source whose handler both
\* steps rewrote the first time
C9_Witness ==
    /\ AppliedTwice(V100, V110)
    /\ runs[Len(runs) - 1].before[MAIN] = Text(<<tADP, tLP, tSIG, tRP>>)
    /\ runs[Len(runs) - 1].after[MAIN] = Text(<<tADP, tMSG, tLP, tSIG, tUID, tRP>>)
    /\ \A i \in 1..2 :
           runs[Len(runs) - 1].result.changes_applied[i].details.msg = "Modified files"

\* C10: for every migration of the catalog (1.2.0 -> 1.3.0 included), applying
\* it again to a tree it was already applied to modifies no file and every
\* step reports "no changes needed".
C10_IdempotentCatalog ==
    \A m \in 1..Len(migrations) :
        AppliedTwice(migrations[m].from_version, migrations[m].to_version) => SecondIsNoOp


(***************************************************************************)
(* Properties of the step loop (specifications StepSpec and MigSpec).      *)
(***************************************************************************)
StepsOf(run) ==
    IF run.op = "apply_migration" THEN run.migration.migration_steps ELSE <<>>

\* the file_pattern of step j of the run matched no file
Missing(run, j) == glob(run.before, StepsOf(run)[j].file_pattern) = {}

\* the loop got as far as step j: no required step before it failed (a step
\* on a readable file that exists succeeds)
Reached(run, j) ==
    \A i \in 1..(j - 1) : Missing(run, i) => ~StepsOf(run)[i].required

\* step j is a required step the loop reached and whose pattern matched no file
RequiredMissing(run, j) ==
    /\ run.op = "apply_migration"
    /\ j \in 1..Len(StepsOf(run))
    /\ StepsOf(run)[j].required /\ Missing(run, j) /\ Reached(run, j)

\* apply_migration returned the failure of step j, after a rollback
FailedAt(run, j) ==
    /\ ~run.raised
    /\ ~run.result.success
    /\ run.result.rollback_performed
    /\ run.result.failed_step = StepsOf(run)[j].name
    /\ run.result.changes_applied = <<>>

\* C11: if a required step's file_pattern matches no file, apply_migration
\* returns failure with rollback_performed = true, no later step is applied,
\* and every file copied into the migration backup has after the call exactly
\* the content (the bytes) it had when the backup was taken.
C11_RequiredStepRollsBack ==
    \A n \in 1..Len(runs) : \A j \in 1..Len(StepsOf(runs[n])) :
        RequiredMissing(runs[n], j) =>
            /\ FailedAt(runs[n], j)
            /\ \A f \in FileNames :
                   exists(runs[n].before[f]) => runs[n].after[f] = runs[n].before[f]

\* the step at which a non-required step j's failure is followed by a required
\* step's failure, 0 when there is none
LaterRequiredMissing(run, j) ==
    LET later == {k \in (j + 1)..Len(StepsOf(run)) : RequiredMissing(run, k)}
    IN  IF later = {} THEN 0 ELSE CHOOSE k \in later : \A x \in later : k <= x

\* step j is a non-required step the loop reached and whose pattern matched no file
OptionalMissing(run, j) ==
    /\ run.op = "apply_migration"
    /\ j \in 1..Len(StepsOf(run))
    /\ ~StepsOf(run)[j].required /\ Missing(run, j) /\ Reached(run, j)

InFailedSteps(run, j) ==
    \E x \in 1..Len(run.result.failed_steps) :
        run.result.failed_steps[x].step = StepsOf(run)[j].name

InChangesApplied(run, j) ==
    \E x \in 1..Len(run.result.changes_applied) :
        run.result.changes_applied[x].step = StepsOf(run)[j].name

\* the call went through every step and returned success, step j in failed_steps,
\* nothing restored from the backup
CompletedDespite(run, j) ==
    /\ ~run.raised
    /\ run.result.success /\ run.result.migration_required
    /\ ~run.result.rollback_performed
    /\ InFailedSteps(run, j)
    /\ \A k \in 1..Len(StepsOf(run)) : InFailedSteps(run, k) \/ InChangesApplied(run, k)
    /\ Len(run.result.failed_steps) + Len(run.result.changes_applied) = Len(StepsOf(run))
    /\ \A f \in FileNames \ {MAIN} : run.after[f] = run.before[f]

\* C12 as stated: if a non-required step fails, apply_migration records it in
\* failed_steps, performs no rollback, applies every subsequent step and
\* returns success = true with migration_required = true.
C12_Original ==
    \A n \in 1..Len(runs) : \A j \in 1..Len(StepsOf(runs[n])) :
        OptionalMissing(runs[n], j) => CompletedDespite(runs[n], j)

\* C12, amended: the failure of a non-required step does not end the loop: the
\* following steps are applied, and when none of them is a required step that
\* fails the call records the step in failed_steps, performs no rollback and
\* returns success = true with migration_required = true; when a following
\* required step fails, the call rolls back and returns that step's failure.
C12_OptionalStepContinues ==
    \A n \in 1..Len(runs) : \A j \in 1..Len(StepsOf(runs[n])) :
        OptionalMissing(runs[n], j) =>
            IF LaterRequiredMissing(runs[n], j) = 0
            THEN CompletedDespite(runs[n], j)
            ELSE FailedAt(runs[n], LaterRequiredMissing(runs[n], j))

\* a run whose first step, not required, failed and whose second step edited
\* app/main.py, on an agent root the backup of which was never copied back
C12_Witness ==
    \E n \in 1..Len(runs) :
        /\ OptionalMissing(runs[n], 1)
        /\ runs[n].result.success
        /\ Len(runs[n].result.failed_steps) = 1
        /\ Len(runs[n].result.changes_applied) = 1
        /\ runs[n].result.changes_applied[1].details.msg = "Modified files"
        /\ runs[n].after[MAIN] # runs[n].before[MAIN]
        /\ runs[n].after[DOC].crlf


(***************************************************************************)
(* Properties of the catalog lookup.                                       *)
(***************************************************************************)
AllVersions == {V100, V110, V120, V130, Unknown}

\* the catalog has an entry with exactly this from_version and this to_version
IsCatalogPair(a, b) ==
    \E i \in 1..Len(migrations) :
        migrations[i].from_version = a /\ migrations[i].to_version = b

\* C13: find_migration(from, to) returns an entry only when an entry has exactly
\* that from_version and that to_version, and none otherwise; 1.0.0 -> 1.3.0
\* finds no migration and apply_migration for it changes no file.
C13_ExactMatch ==
    /\ \A a \in AllVersions, b \in AllVersions :
           IF IsCatalogPair(a, b)
           THEN /\ find_migration(a, b) # NoMigration
                /\ find_migration(a, b).from_version = a
                /\ find_migration(a, b).to_version = b
           ELSE find_migration(a, b) = NoMigration
    /\ find_migration(V100, V130) = NoMigration
    /\ \A n \in 1..Len(runs) :
           runs[n].from_version = V100 /\ runs[n].to_version = V130 =>
               /\ runs[n].migration = NoMigration
               /\ ~runs[n].raised
               /\ runs[n].after = runs[n].before
               /\ n = Len(runs) => fs = runs[n].before

\* apply_migration("1.0.0", "1.3.0") on a handler the 1.0.0 -> 1.1.0 steps would rewrite
C13_Witness ==
    \E n \in 1..Len(runs) :
        /\ runs[n].from_version = V100 /\ runs[n].to_version = V130
        /\ runs[n].before[MAIN] = Text(<<tADP, tLP, tSIG, tRP>>)
        /\ fs[MAIN] = Text(<<tADP, tLP, tSIG, tRP>>)
        /\ runs[n].result.message = "No migration needed"

IsInfo(run) == run.op = "get_migration_info"

\* C14: get_migration_info(from, to) reports migration_available = true exactly
\* when (from, to) is a catalog pair, and then has_code_changes = true exactly
\* when the entry has a step; (1.2.0, 1.2.0) is not available, (1.1.0, 1.2.0)
\* is available with zero steps and has_code_changes = false; the call leaves
\* the files and the backup directories as they were.
C14_MigrationInfo ==
    /\ ~get_migration_info(V120, V120).migration_available
    /\ get_migration_info(V110, V120).migration_available
    /\ get_migration_info(V110, V120).migration_steps = <<>>
    /\ ~get_migration_info(V110, V120).has_code_changes
    /\ \A n \in 1..Len(runs) :
           IsInfo(runs[n]) =>
               /\ runs[n].info.migration_available =
                      IsCatalogPair(runs[n].from_version, runs[n].to_version)
               /\ runs[n].info.migration_available =>
                      /\ Len(runs[n].info.migration_steps) =
                             Len(find_migration(runs[n].from_version,
                                                runs[n].to_version).migration_steps)
                      /\ runs[n].info.has_code_changes =
                             (Len(runs[n].info.migration_steps) > 0)
               /\ ~runs[n].info.migration_available => ~runs[n].info.has_code_changes
               /\ n = Len(runs) =>
                      fs = runs[n].before /\ migration_backups = runs[n].dirs_before

\* get_migration_info asked about 1.1.0 -> 1.2.0 and about 1.0.0 -> 1.1.0
C14_Witness ==
    /\ Len(runs) = 2
    /\ IsInfo(runs[1]) /\ runs[1].from_version = V110 /\ runs[1].to_version = V120
    /\ runs[1].info.migration_available /\ ~runs[1].info.has_code_changes
    /\ IsInfo(runs[2]) /\ runs[2].from_version = V100 /\ runs[2].to_version = V110
    /\ runs[2].info.has_code_changes /\ Len(runs[2].info.migration_steps) = 2

\* the run found no catalog entry, or one without steps
NothingToApply(run) ==
    run.migration = NoMigration \/ Len(run.migration.migration_steps) = 0

\* C15: when apply_migration finds no matching entry, or a matching entry with
\* zero steps, it returns success = true with migration_required = false, no
\* migration backup directory is created and no file is written.
C15_NothingToApply ==
    \A n \in 1..Len(runs) :
        NothingToApply(runs[n]) =>
            /\ ~runs[n].raised
            /\ runs[n].result.success
            /\ ~runs[n].result.migration_required
            /\ runs[n].after = runs[n].before
            /\ runs[n].dirs_after = runs[n].dirs_before
            /\ n = Len(runs) =>
                   fs = runs[n].before /\ migration_backups = runs[n].dirs_before

\* 1.1.0 -> 1.2.0 (an entry without steps) applied after a migration that took a backup
C15_Witness ==
    /\ Len(runs) = 2
    /\ runs[1].result.migration_required /\ runs[1].dirs_after # <<>>
    /\ runs[2].from_version = V110 /\ runs[2].to_version = V120
    /\ runs[2].result.message = "New features but no code changes required"
    /\ DOMAIN migration_backups = DOMAIN runs[1].dirs_after


(***************************************************************************)
(* Properties of get_available_versions (specification ListingSpec).      *)
(***************************************************************************)
\* a is before b in the lexicographic order of the code points
LexLess(a, b) ==
    \E k \in 0..Len(a) :
        /\ k <= Len(b)
        /\ \A x \in 1..k : a[x] = b[x]
        /\ \/ k = Len(a) /\ k < Len(b)
           \/ k < Len(a) /\ k < Len(b) /\ ord(a[k + 1]) < ord(b[k + 1])

\* the call returned without going through its except branch
ListingReturned == listing.pc = "done" /\ ~listing.failed

\* how many entries of the sequence q satisfy tag = n
CountTag(q, n) == Cardinality({x \in 1..Len(q) : q[x].tag = n})
CountName(q, n) == Cardinality({x \in 1..Len(q) : q[x].name = n})

LookupFailed(k) == listing.lookups[k] \in {"404", "error"}

\* C17: get_available_versions never propagates an error: it always returns a
\* list; a failure of the tag listing (network, status, parsing) yields the
\* empty list; a release lookup that fails or answers a non-200 status never
\* fails the call, and its tag is in the result with no release date, an
\* empty changelog and is_prerelease = false.
C17_ErrorsSwallowed ==
    /\ listing.pc \in {"idle", "tags", "release", "done"}
    /\ listing.failed => listing.pc = "done" /\ listing.result = <<>>
    /\ listing.pc = "done" /\ listing.tags_outcome # "ok" =>
           listing.failed /\ listing.result = <<>>
    /\ listing.failed /\ listing.tags_outcome = "ok" =>
           \/ "name" \notin listing.tags_data[listing.i].keys
           \/ /\ listing.lookups # <<>>
              /\ ~LookupFailed(Len(listing.lookups))
    /\ ListingReturned =>
           \A k \in 1..Len(listing.lookups) :
               LookupFailed(k) =>
                   \E x \in 1..Len(listing.result) :
                       listing.result[x] =
                           FrameworkVersion(listing.tags_data[k].name,
                               lstrip(listing.tags_data[k].name, {"v"}), None, "", FALSE)

\* a call that returned three versions after one lookup answered 404, one
\* ended in a network error and one found its release
C17_Witness ==
    /\ ListingReturned
    /\ listing.lookups = <<"404", "200", "error">>
    /\ Len(listing.result) = 3
    /\ \E x \in 1..3 : listing.result[x].changelog = "notes"
    /\ \E x \in 1..3 : listing.result[x].release_date = None


(***************************************************************************)
(* Properties of POST /chat (specification ChatSpec).                      *)
(***************************************************************************)
\* the requests that have entered the handler
Entered == {r \in Reqs : agent.req[r].pc \in {"processing", "responded"}}
InFlight == {r \in Reqs : agent.req[r].pc = "processing"}

\* C18: the request counter is exact: when N /chat requests have entered the
\* handler, however many of them are still suspended inside process_message,
\* request_count = N, and last_request_time is the entry time of the request
\* admitted last (None before the first); entry times never go back.
C18_ExactCount ==
    /\ agent.request_count = Cardinality(Entered)
    /\ agent.request_count = Len(agent.admitted)
    /\ \A x \in 1..Len(agent.admitted) : agent.admitted[x] \in Entered
    /\ \A x \in 1..Len(agent.admitted), y \in 1..Len(agent.admitted) :
           x < y => /\ agent.admitted[x] # agent.admitted[y]
                    /\ agent.req[agent.admitted[x]].entered_at[1] <=
                           agent.req[agent.admitted[y]].entered_at[1]
    /\ agent.last_request_time =
           IF agent.admitted = <<>> THEN <<>>
           ELSE agent.req[agent.admitted[Len(agent.admitted)]].entered_at

\* two requests in flight at once, entered at different times
C18_Witness ==
    /\ Cardinality(InFlight) = 2
    /\ agent.request_count = 2
    /\ agent.req[1].entered_at = <<0>>
    /\ agent.last_request_time = <<1>>

\* the message the claim calls invalid: missing, empty or longer than 10000
Invalid(message) == ~message.present \/ message.len = 0 \/ message.len > 10000

\* C19: a /chat request whose message is missing, empty or longer than 10000
\* characters is rejected before the handler: process_message is not invoked
\* for it and it changes neither request_count nor last_request_time (only
\* the other requests are counted); messages of length 1 and 10000 are
\* accepted.
C19_ValidationAtBoundary ==
    /\ \A r \in Reqs :
           agent.req[r].pc # "new" =>
               IF Invalid(agent.req[r].message)
               THEN /\ agent.req[r].pc = "rejected"
                    /\ agent.req[r].invocations = 0
                    /\ agent.req[r].response.status = 422
                    /\ \A x \in 1..Len(agent.admitted) : agent.admitted[x] # r
               ELSE /\ agent.req[r].pc \in {"processing", "responded"}
                    /\ agent.req[r].invocations = 1
    /\ \A r \in Reqs :
           agent.req[r].pc # "new" /\ agent.req[r].message.present
           /\ agent.req[r].message.len \in {1, 10000}
           => agent.req[r].pc \in {"processing", "responded"}
    /\ agent.request_count =
           Cardinality({r \in Reqs : agent.req[r].pc # "new"
                                      /\ ~Invalid(agent.req[r].message)})
    /\ agent.last_request_time # <<>> =>
           \E r \in Reqs : /\ ~Invalid(agent.req[r].message)
                            /\ agent.req[r].entered_at = agent.last_request_time

\* a message of 10000 characters was accepted at time 0, and a later one of
\* 10001 characters rejected
C19_Witness ==
    /\ agent.req[1].message.len = 10000 /\ agent.req[1].pc = "processing"
    /\ agent.req[2].message.len = 10001 /\ agent.req[2].pc = "rejected"
    /\ agent.clock = 1
    /\ agent.request_count = 1 /\ agent.last_request_time = <<0>>

\* C20: an error raised by process_message is answered with a 500 whose detail
\* is "Processing error: " followed by the error's text; process_message is
\* invoked once per request, never again; a request whose process_message
\* returns is answered with a ChatResponse whose context.original_message is
\* the request's message.
C20_ErrorsSurfaceAs500 ==
    \A r \in Reqs :
        /\ agent.req[r].invocations <= 1
        /\ agent.req[r].pc = "responded" =>
               /\ agent.req[r].invocations = 1
               /\ agent.req[r].outcome.kind = "raise" =>
                      /\ agent.req[r].response.status = 500
                      /\ agent.req[r].response.detail =
                             <<"Processing error: ", agent.req[r].outcome.text>>
               /\ agent.req[r].outcome.kind = "return" =>
                      /\ agent.req[r].response.status = 200
                      /\ agent.req[r].response.response = agent.req[r].outcome.text
                      /\ agent.req[r].response.original_message =
                             <<agent.req[r].message.text>>

\* one request answered with a 500, another, with a different message, with a ChatResponse
C20_Witness ==
    /\ agent.req[1].pc = "responded" /\ agent.req[1].response.status = 500
    /\ agent.req[1].response.detail = <<"Processing error: ", "boom">>
    /\ agent.req[2].pc = "responded" /\ agent.req[2].response.status = 200
    /\ agent.req[2].message.text # agent.req[1].message.text


(***************************************************************************)
(* Properties of the LLM-enabled agent (specification LlmSpec).           *)
(***************************************************************************)
\* the LLM call of request r has ended
LlmDone(r) == llm.call[r].pc = "done"

\* LLMClient.chat of request r ended in an error
ChatFailed(r) == LlmDone(r) /\ llm.call[r].chat.kind = "raise"

\* the call of request r ended without an SDK call: the SDK is not installed
NoSdk(r) == LlmDone(r) /\ ~llm.call[r].cancelled /\ llm.call[r].api = <<>>

\* the SDK call of request r ended in an error / in a completion
ApiFailed(r) ==
    LlmDone(r) /\ llm.call[r].api # <<>> /\ llm.call[r].api.kind = "raise"
ApiReturned(r) ==
    LlmDone(r) /\ llm.call[r].api # <<>> /\ llm.call[r].api.kind = "return"

\* C21: when LLMClient.chat fails (provider error, time-out, missing SDK),
\* process_message does not raise and returns exactly the apology with the
\* agent's name, and /chat answers 200 with that text, not 500.
C21_LlmFailureApology ==
    \A r \in Reqs :
        ChatFailed(r) =>
            /\ llm.call[r].text = Returns(Some(Apology(llm.name)))
            /\ agent.req[r].pc = "responded"
            /\ agent.req[r].response.status = 200
            /\ agent.req[r].response.response = Apology(llm.name)
            /\ agent.req[r].response.detail = <<>>

\* one request whose SDK call raised and one that timed out, both answered
C21_Witness ==
    \E r, q \in Reqs :
        /\ ChatFailed(r) /\ ApiFailed(r)
        /\ ChatFailed(q) /\ llm.call[q].cancelled
        /\ agent.req[r].response.status = 200
        /\ agent.req[q].response.response = Apology(llm.name)

TimeoutMessage ==
    <<"LLM request timeout after ", llm.config.timeout_seconds, ".0", "s">>

\* C22: LLMClient.chat is bounded by timeout_seconds: a call still pending when
\* the bound has elapsed is cancelled and fails with a time-out error naming
\* the configured value; any other failure is re-raised as "LLM error: " with
\* the original message; a completion in time is returned unchanged.
C22_ChatTimeout ==
    \A r \in Reqs :
        /\ (LlmDone(r) /\ llm.call[r].cancelled) =>
               /\ llm.time >= llm.call[r].deadline
               /\ llm.call[r].api = <<>>
               /\ llm.call[r].chat = Raises(Error("Exception", TimeoutMessage))
        /\ ApiFailed(r) =>
               llm.call[r].chat =
                   Raises(Error("Exception",
                                <<"LLM error: ", ApiErrorPrefix(llm.config.provider)>>
                                    \o llm.call[r].api.e.msg))
        /\ NoSdk(r) =>
               /\ llm.call[r].chat.kind = "raise"
               /\ llm.call[r].chat.e.type = "Exception"
               /\ llm.call[r].chat.e.msg[1] = "LLM error: "
               /\ llm.call[r].chat.e.msg[3] =
                      " package not installed. Install with: pip install "
        /\ ApiReturned(r) => llm.call[r].chat = llm.call[r].api

\* a call cancelled at its deadline, next to a call whose SDK raised a
\* time-out of its own before the deadline and is reported as a generic error
C22_Witness ==
    \E r, q \in Reqs :
        /\ LlmDone(r) /\ llm.call[r].cancelled
        /\ llm.call[r].chat.e.msg = TimeoutMessage
        /\ ApiFailed(q) /\ llm.call[q].api.e.type = "TimeoutError"
        /\ llm.call[q].chat.e.msg[1] = "LLM error: "

(***************************************************************************)
(* Properties of the configuration objects (specification ConfigSpec).    *)
(***************************************************************************)
IsRun(i, op) == i \in 1..Len(runs) /\ runs[i].op = op

ModelTable ==
    { <<"anthropic", "fast", "claude-3-haiku-20240307">>,
      <<"anthropic", "smart", "claude-3-sonnet-20240229">>,
      <<"anthropic", "premium", "claude-3-opus-20240229">>,
      <<"openai", "fast", "gpt-3.5-turbo">>,
      <<"openai", "smart", "gpt-4-turbo-preview">>,
      <<"openai", "premium", "gpt-4">> }

\* C23: get_model_name returns the table's entry for each of the six mapped
\* (provider, tier) pairs, and claude-3-haiku-20240307 for a tier that is not in
\* the table, whatever the provider.
C23_ModelName ==
    \A i \in 1..Len(runs) :
        IsRun(i, "get_model_name") =>
            /\ \A e \in ModelTable :
                   (runs[i].provider = e[1] /\ runs[i].model_tier = e[2])
                       => runs[i].result = e[3]
            /\ (\A e \in ModelTable : runs[i].model_tier # e[2])
                   => runs[i].result = "claude-3-haiku-20240307"

\* openai asked for its premium model and for a tier that is not mapped
C23_Witness ==
    \E i, j \in 1..Len(runs) :
        /\ IsRun(i, "get_model_name") /\ IsRun(j, "get_model_name")
        /\ runs[i].provider = "openai" /\ runs[i].model_tier = "premium"
        /\ runs[i].result = "gpt-4"
        /\ runs[j].provider = "openai" /\ runs[j].model_tier = "turbo"
        /\ runs[j].result = "claude-3-haiku-20240307"

\* C25: with name, slug and description given, AgentConfig is constructed
\* exactly when 1000 <= port <= 65535.
C25_PortBounds ==
    \A i \in 1..Len(runs) :
        (/\ IsRun(i, "AgentConfig")
         /\ runs[i].kwargs.name # None /\ runs[i].kwargs.slug # None
         /\ runs[i].kwargs.description # None /\ runs[i].kwargs.port # None)
            => (runs[i].result = "ok"
                    <=> (1000 <= runs[i].kwargs.port[1]
                             /\ runs[i].kwargs.port[1] <= 65535))

\* port 1000 accepted and port 65536 refused
C25_Witness ==
    \E i, j \in 1..Len(runs) :
        /\ IsRun(i, "AgentConfig") /\ IsRun(j, "AgentConfig")
        /\ runs[i].kwargs = AgentConfigArgs(Some("Helper"), Some("helper"),
                                            Some("An assistant"), Some(1000))
        /\ runs[i].result = "ok"
        /\ runs[j].kwargs = AgentConfigArgs(Some("Helper"), Some("helper"),
                                            Some("An assistant"), Some(65536))
        /\ runs[j].result = "ValidationError"

(***************************************************************************)
(* Properties of the lifespan (specification LifeSpec).                   *)
(***************************************************************************)
\* how many times the hook was awaited
Awaited(hook) == Cardinality({i \in 1..Len(life.hooks) : life.hooks[i] = hook})

\* a request has reached the application
Routed == \E r \in Reqs : agent.req[r].pc # "new"

IsCacheName(n) == n \in {Name("__pycache__", ""), Name(".pytest_cache", ""),
                         Name(".framework_backups", "")}
IsArtifact(e) == e.kind = "file" /\ e.path[Len(e.path)][2] \in {".pyc", ".log"}

\* the entry lies in, or is, a directory of one of the three names
InCache(e) == \E k \in 1..Len(e.path) : IsCacheName(e.path[k])

Cloned(i) == IsRun(i, "create_test_clone") /\ runs[i].raised = ""

\* C26: create_test_clone copies the agent root to a sibling directory; the
\* clone holds no entry named __pycache__, .pytest_cache or .framework_backups
\* at any depth and no file ending in .pyc or .log; every other file of the
\* agent root is in the clone; the agent root is unchanged.
C26_CloneExclusion ==
    \A i \in 1..Len(runs) :
        Cloned(i) =>
            /\ Len(runs[i].result) = 1 /\ <<runs[i].result[1]>> # AGENT
            /\ \A e \in TreeAt(runs[i].after, runs[i].result) :
                   ~InCache(e) /\ ~IsArtifact(e)
            /\ \A e \in runs[i].before[AGENT] :
                   (e.kind = "file" /\ ~InCache(e) /\ ~IsArtifact(e))
                       => e \in TreeAt(runs[i].after, runs[i].result)
            /\ runs[i].after[AGENT] = runs[i].before[AGENT]

(***************************************************************************)
(* Properties of the capability list (specification CapSpec).             *)
(***************************************************************************)
CapabilityNames == [i \in 1..Len(capabilities) |-> capabilities[i].name]

BaseNames ==
    <<"chat", "health_check", "status_reporting", "framework_management",
      "test_cloning">>
LlmNames == <<"llm_conversation", "context_awareness">>

\* the names the list starts with after construction
ConstructedNames == IF llm.config = <<>> THEN BaseNames ELSE BaseNames \o LlmNames

\* the capabilities given to add_capability so far, in the order of the calls
Added == [i \in 1..Len(runs) |-> runs[i].capability]

\* C27: the capability list is append-only: it starts with the five base
\* capabilities in their fixed order (then the two LLM capabilities of an
\* LLM-enabled agent), and each add_capability call appends exactly one entry
\* at the end, nothing removed, reordered or de-duplicated.
C27_AppendOnly ==
    /\ Len(capabilities) = Len(ConstructedNames) + Len(runs)
    /\ SubSeq(CapabilityNames, 1, Len(ConstructedNames)) = ConstructedNames
    /\ SubSeq(capabilities, Len(ConstructedNames) + 1, Len(capabilities)) = Added
    /\ \A i \in 1..Len(runs) :
           /\ runs[i].after = Append(runs[i].before, runs[i].capability)
           /\ \A k \in 1..Len(runs[i].before) : runs[i].after[k] = runs[i].before[k]

\* "chat" added again to an LLM-enabled agent: the list holds it twice
C27_Witness ==
    /\ llm.config # <<>>
    /\ Len(runs) = 2
    /\ runs[2].capability.name = "chat"
    /\ Cardinality({k \in 1..Len(capabilities) : capabilities[k].name = "chat"}) >= 2
    /\ capabilities[6].name = "llm_conversation"
    /\ capabilities[Len(capabilities)] = runs[2].capability

(***************************************************************************)
(* Properties of the test probe (specification Spec).                     *)
(***************************************************************************)
\* the three candidate invocations, in the order they are tried
Candidates ==
    << <<"python", " ", "-m", " ", "pytest", " ", "tests/", " ", "-v">>,
       <<"python", " ", "-m", " ", "pytest", " ", ".", " ", "-v">>,
       <<"python", " ", "test_agent.py">> >>

\* the answers of the command-existence checks made so far stop at the first
\* command found
StopsAtFirst(probes) ==
    /\ Len(probes) <= 3
    /\ \A k \in 1..(Len(probes) - 1) : ~probes[k]

\* C28: the test probe tries its three candidates in the fixed order and runs
\* exactly one, the first whose command exists; it reports success exactly
\* when that command's exit code is 0; when none of the three commands exists
\* it reports success and has run nothing.
C28_TestProbe ==
    \A c \in Calls :
        /\ StopsAtFirst(call[c].probes)
        /\ pc[c] = "which" =>
               (\A k \in 1..Len(call[c].probes) : ~call[c].probes[k])
                   /\ call[c].cmd = Len(call[c].probes) + 1
        /\ pc[c] = "tests" =>
               call[c].probes[Len(call[c].probes)] /\ call[c].cmd = Len(call[c].probes)
        /\ call[c].test_results # <<>> =>
               /\ call[c].test_results[1].kind = "ran" =>
                      /\ call[c].probes[Len(call[c].probes)]
                      /\ call[c].test_results[1].command =
                             Candidates[Len(call[c].probes)]
                      /\ call[c].test_results[1].success
                             <=> call[c].test_results[1].exit_code = <<0>>
               /\ call[c].test_results[1].kind = "error" =>
                      /\ call[c].probes[Len(call[c].probes)]
                      /\ ~call[c].test_results[1].success
               /\ call[c].test_results[1].kind \notin {"ran", "error"} =>
                      /\ call[c].probes = <<FALSE, FALSE, FALSE>>
                      /\ call[c].test_results[1].success
                      /\ call[c].test_results[1].command = <<>>
                      /\ call[c].test_results[1].exit_code = <<>>

\* the third candidate ran, after two commands that were not found, and failed
C28_Witness ==
    \E c \in Calls :
        /\ call[c].probes = <<FALSE, FALSE, TRUE>>
        /\ call[c].test_results # <<>>
        /\ call[c].test_results[1].kind = "ran"
        /\ call[c].test_results[1].command = <<"python", " ", "test_agent.py">>
        /\ call[c].test_results[1].exit_code = <<1>>
        /\ ~call[c].test_results[1].success

(***************************************************************************)
(* Properties of the manifest rewrite (specification ManifestSpec).       *)
(***************************************************************************)
\* 'hg-agent-fwk.git' in line
Mentions(line) == \E k \in 1..Len(line) : line[k] = "hg-agent-fwk.git"

\* the line the rewrite puts in
Pinned(target_tag) ==
    <<"git+https://github.com/Holy-Bird-Animation-Studio/", "hg-agent-fwk.git", "@">>
        \o target_tag

Rewrote(i) ==
    /\ IsRun(i, "_update_requirements_file")
    /\ runs[i].before[REQ].kind = "text"

\* line k of a text file as it is stored: its text and, for every line but the
\* last, its line ending
StoredLine(file, k) ==
    [text |-> file.data[k],
     ending |-> IF k = Len(file.data) THEN "" ELSE IF file.crlf THEN "\r\n" ELSE "\n"]

\* C30: the manifest rewrite replaces every line that contains
\* hg-agent-fwk.git by exactly the pinned line of the target tag and leaves
\* every other line, the number of lines and their order as they were; when no
\* line matches, the manifest is not written.
C30_ManifestRewrite ==
    \A i \in 1..Len(runs) :
        Rewrote(i) =>
            IF \E k \in 1..Len(runs[i].before[REQ].data) :
                   Mentions(runs[i].before[REQ].data[k])
            THEN /\ runs[i].raised = ""
                 /\ runs[i].after[REQ].kind = "text"
                 /\ Len(runs[i].after[REQ].data) = Len(runs[i].before[REQ].data)
                 /\ \A k \in 1..Len(runs[i].before[REQ].data) :
                        IF Mentions(runs[i].before[REQ].data[k])
                        THEN runs[i].after[REQ].data[k] = Pinned(runs[i].target_tag)
                        ELSE StoredLine(runs[i].after[REQ], k)
                                 = StoredLine(runs[i].before[REQ], k)
                 /\ \A f \in FileNames \ {REQ} : runs[i].after[f] = runs[i].before[f]
            ELSE /\ runs[i].raised # ""
                 /\ runs[i].after = runs[i].before

(***************************************************************************)
(* Properties of concurrent updates (specification ConcSpec).             *)
(***************************************************************************)
\* the call has returned success = true and its result has not been sent yet
Succeeded(c) == pc[c] = "done" /\ result[c].success

\* framework.lock records the tag / requirements.txt pins the tag
LockRecords(tag) == fs[LOCK] = Text(tag \o <<"\n">>)
ManifestPins(tag) ==
    /\ fs[REQ].kind = "text"
    /\ \A k \in 1..Len(fs[REQ].data) :
           IsFrameworkLine(fs[REQ].data[k]) => fs[REQ].data[k] = FrameworkLine(tag)
    /\ \E k \in 1..Len(fs[REQ].data) : fs[REQ].data[k] = FrameworkLine(tag)

\* C29: the update workflow has no lock of its own: a call that has not
\* started can enter whatever the other calls are doing (and so two calls with
\* different targets can interleave, both succeed, and leave framework.lock
\* with a tag the manifest does not pin: the witness).
C29_NoLock ==
    \A c \in Calls :
        pc[c] = "idle" =>
            ENABLED (\E t \in ConcTargets, rt \in BOOLEAN : update_framework(c, t, rt))

\* two calls with different targets have both returned success, and the lock
\* file records the tag of one while the manifest pins the tag of the other
C29_Witness ==
    \E c, d \in Calls :
        /\ c # d
        /\ Succeeded(c) /\ Succeeded(d)
        /\ call[c].target_tag # call[d].target_tag
        /\ LockRecords(call[c].target_tag)
        /\ ManifestPins(call[d].target_tag)

(***************************************************************************)
(* Properties of a completed migration (specification StepSpec).          *)
(***************************************************************************)
\* the run went through its steps and returned success
Completed(run) ==
    /\ run.op = "apply_migration" /\ ~run.raised
    /\ run.result.success /\ run.result.migration_required

\* the tree t holds a file of that path
Holds(t, path) == path \in DOMAIN t /\ exists(t[path])

\* the tree t once the substitution of the step is made on the file t holds
Substituted(t, step) ==
    IF re_sub(step.search_pattern, step.replace_pattern, t[step.file_pattern].data)
           = t[step.file_pattern].data
    THEN t
    ELSE [t EXCEPT ![step.file_pattern] =
             Text(re_sub(step.search_pattern, step.replace_pattern, @.data))]

\* the tree the steps 1..j leave when each works on what the previous one left
RECURSIVE TreeAfter(_, _)
TreeAfter(run, j) ==
    IF j = 0 THEN run.before
    ELSE IF Holds(TreeAfter(run, j - 1), StepsOf(run)[j].file_pattern)
    THEN Substituted(TreeAfter(run, j - 1), StepsOf(run)[j])
    ELSE TreeAfter(run, j - 1)

\* step j found its file
Found(run, j) == Holds(TreeAfter(run, j - 1), StepsOf(run)[j].file_pattern)

\* the descriptor of step j: what it reports about the file it found
Descriptor(run, j) ==
    [step |-> StepsOf(run)[j].name,
     description |-> StepsOf(run)[j].description,
     details |->
        IF TreeAfter(run, j) = TreeAfter(run, j - 1)
        THEN [msg |-> "No changes needed (patterns already up to date)", arg |-> <<>>]
        ELSE [msg |-> "Modified files", arg |-> <<StepsOf(run)[j].file_pattern>>]]

\* the descriptors of the steps 1..j that found their file, in step order
RECURSIVE Descriptors(_, _)
Descriptors(run, j) ==
    IF j = 0 THEN <<>>
    ELSE IF Found(run, j) THEN Append(Descriptors(run, j - 1), Descriptor(run, j))
    ELSE Descriptors(run, j - 1)

\* the names of the steps 1..j that did not find their file, in step order
RECURSIVE FailedNames(_, _)
FailedNames(run, j) ==
    IF j = 0 THEN <<>>
    ELSE IF Found(run, j) THEN FailedNames(run, j - 1)
    ELSE Append(FailedNames(run, j - 1), StepsOf(run)[j].name)

\* C31: on full success apply_migration has applied the steps in catalog
\* order, each on the content the previous step produced, and returns
\* success = true with migration_required = true, the breaking-change list,
\* one applied-change descriptor per succeeded step in step order, the
\* failed-steps list and the backup path; a file a substitution leaves
\* unchanged is not written back (it keeps its bytes) and is not reported as
\* modified.
C31_FullSuccess ==
    \A n \in 1..Len(runs) :
        Completed(runs[n]) =>
            /\ runs[n].after = TreeAfter(runs[n], Len(StepsOf(runs[n])))
            /\ runs[n].result.keys =
                   {"success", "migration_required", "message", "breaking_changes",
                    "changes_applied", "failed_steps", "backup_path"}
            /\ runs[n].result.breaking_changes = runs[n].migration.breaking_changes
            /\ runs[n].result.changes_applied =
                   Descriptors(runs[n], Len(StepsOf(runs[n])))
            /\ [x \in 1..Len(runs[n].result.failed_steps) |->
                   runs[n].result.failed_steps[x].step]
                   = FailedNames(runs[n], Len(StepsOf(runs[n])))
            /\ runs[n].result.backup_path \in DOMAIN runs[n].dirs_after
            /\ runs[n].result.backup_path[2] = runs[n].from_version
            /\ runs[n].result.backup_path[3] = runs[n].to_version
            /\ \A f \in FileNames :
                   runs[n].after[f].data = runs[n].before[f].data
                       => runs[n].after[f] = runs[n].before[f]

\* a completed 1.0.0 -> 1.1.0 run whose second step matched only what the first
\* step wrote, followed by a completed run one step of which found no file and
\* the other of which had nothing to change
C31_Witness ==
    /\ Len(runs) = 2
    /\ Completed(runs[1]) /\ Completed(runs[2])
    /\ runs[1].from_version = V100
    /\ runs[1].before[MAIN] = TextCRLF(<<tADP, tLP, tSIG, tRP>>)
    /\ runs[1].after[MAIN] = Text(<<tADP, tMSG, tLP, tSIG, tUID, tRP>>)
    /\ Len(runs[1].result.changes_applied) = 2
    /\ runs[2].from_version = V210
    /\ Len(runs[2].result.failed_steps) = 1
    /\ runs[2].result.changes_applied[1].details.msg = NoChanges

(***************************************************************************)
(* Properties of the listing's order on two-digit components              *)
(* (specification ListingSpec).                                            *)
(***************************************************************************)
V190 == <<"1", ".", "9", ".", "0">>
V1100 == <<"1", ".", "1", "0", ".", "0">>

\* the remote tags were v1.9.0 and v1.10.0, each at least once, and the call
\* returned its list
ListedNineAndTen ==
    /\ ListingReturned
    /\ \A k \in 1..Len(listing.tags_data) :
           listing.tags_data[k].name \in {<<"v">> \o V190, <<"v">> \o V1100}
    /\ \E k \in 1..Len(listing.tags_data) : listing.tags_data[k].name = <<"v">> \o V190
    /\ \E k \in 1..Len(listing.tags_data) : listing.tags_data[k].name = <<"v">> \o V1100

\* C32: in the list returned by get_available_versions for the remote tags
\* v1.9.0 and v1.10.0, the entry for version "1.10.0" comes before the entry
\* for version "1.9.0".
C32_TenBeforeNine ==
    ListedNineAndTen =>
        \A x \in 1..Len(listing.result), y \in 1..Len(listing.result) :
            listing.result[x].version = V1100 /\ listing.result[y].version = V190
                => x < y

(***************************************************************************)
(* Properties of the framework backup (specification ConcSpec).           *)
(***************************************************************************)
\* the call has taken its backup and its frame is still there
TookBackup(c) == call[c].backup_path # <<>>

\* the manifest and the lock file as they were when the call started
SnapshotAtStart(c) ==
    [f \in FileNames |-> IF f \in {REQ, LOCK} THEN call[c].pre[f] ELSE Absent]

\* C33: every update_framework call takes its backup in a fresh directory: no
\* two calls share a backup directory (two calls started within the same clock
\* second from the same current version included), so that a backup, once
\* taken, is never overwritten by a later call and holds only the copies of the
\* manifest and the lock file as they were when its call started.
C33_FreshBackup ==
    /\ \A c \in Calls, d \in Calls :
           c # d /\ TookBackup(c) /\ TookBackup(d)
               => call[c].backup_path # call[d].backup_path
    /\ \A c \in Calls :
           TookBackup(c) => framework_backups[call[c].backup_path] = SnapshotAtStart(c)

(***************************************************************************)
(* Properties of the provider adapter's client (specification LlmSpec).   *)
(***************************************************************************)
\* the chat calls made on the adapter so far
ChatCalls == {r \in Reqs : llm.call[r].pc # "idle"}

MissingDependency(provider) ==
    Error("ImportError",
          <<provider, " package not installed. Install with: pip install ", provider>>)

\* C34: the provider adapter constructs its backend client lazily and at most
\* once: no client is constructed before the first chat call; with the SDK
\* installed the client is constructed exactly once, whatever the number of
\* chat calls, and every call uses that one client; without the SDK every chat
\* call fails with the missing-dependency error (which LLMClient.chat re-raises
\* as "LLM error: ...") and the client stays unset.
C34_LazyClient ==
    /\ ChatCalls = {} => llm.client = None /\ llm.constructed = 0
    /\ (llm.sdk /\ ChatCalls # {}) =>
           /\ llm.constructed = 1
           /\ llm.client = Client(llm.config.provider, 1)
           /\ \A r \in ChatCalls : llm.call[r].used = llm.client
    /\ ~llm.sdk =>
           /\ llm.client = None /\ llm.constructed = 0
           /\ \A r \in ChatCalls :
                  /\ llm.call[r].pc = "done"
                  /\ llm.call[r].used = None /\ llm.call[r].api = <<>>
                  /\ llm.call[r].chat =
                         Raises(Error("Exception",
                                <<"LLM error: ">>
                                    \o MissingDependency(llm.config.provider).msg))

\* two chat calls on an adapter whose SDK is installed, the second made after
\* the first has ended: one client
C34_Witness ==
    /\ llm.sdk
    /\ llm.call[1].pc = "done" /\ llm.call[1].api = Returns(Some("OK"))
    /\ llm.call[2].pc = "pending"
    /\ llm.call[2].deadline > llm.call[1].deadline
    /\ llm.constructed = 1
    /\ llm.call[2].used = llm.call[1].used

(***************************************************************************)
(* Properties of the migration inside an update (specification Spec).     *)
(***************************************************************************)
\* the transition of call c has a catalog migration with code-level steps
HasCodeSteps(c) == has_breaking_changes(call[c].current_version, call[c].target_clean)

\* apply_migration of call c returned success and restored nothing
MigrationCompleted(c) ==
    /\ HasEvent(c, "migration", TRUE)
    /\ call[c].migration_result.success
    /\ ~call[c].migration_result.rollback_performed

\* apply_migration of call c returned a failure or rolled its edits back
MigrationFailed(c) ==
    /\ Ran(c, "migration")
    /\ \/ ~call[c].migration_result.success
       \/ call[c].migration_result.rollback_performed

\* C35: whenever update_framework returns success = true for a transition
\* whose catalog migration has code-level steps, that migration completed
\* successfully on the agent's source tree (apply_migration returned success
\* and was not rolled back); a failed or rolled-back migration never yields a
\* successful update with the lock file advanced to the target tag.
C35_MigrationGatesSuccess ==
    \A c \in Calls :
        /\ (Returned(c) /\ result[c].success /\ HasCodeSteps(c)) => MigrationCompleted(c)
        /\ (Returned(c) /\ MigrationFailed(c)) =>
               ~(result[c].success /\ fs[LOCK] = Text(call[c].target_tag \o <<"\n">>))

(***************************************************************************)
(* Properties of a failed update (specification Spec).                    *)
(***************************************************************************)
\* the call has returned success = false with rollback_available = true
FailedWithRollback(c) ==
    Returned(c) /\ ~result[c].success /\ result[c].rollback_available

\* C36: with one update in flight at a time, whenever update_framework returns
\* success = false with rollback_available = true, get_current_version()
\* afterwards returns what it returned before the call (the result's
\* from_version), also when no framework.lock existed before the call.
C36_VersionRestored ==
    \A c \in Calls :
        FailedWithRollback(c) =>
            /\ result[c].from_version = get_current_version(call[c].pre)
            /\ get_current_version(fs) = result[c].from_version

\* C37: with one update in flight at a time, whenever update_framework returns
\* success = false with rollback_available = true, the agent's source file
\* app/main.py has the content it had before the call: the edits the code
\* migration made during the attempt are undone by the rollback.
C37_SourceRestored ==
    \A c \in Calls :
        FailedWithRollback(c) => fs[MAIN] = call[c].pre[MAIN]

(***************************************************************************)
(* Properties of a successful update (specification Spec).                *)
(***************************************************************************)
\* C38: with one update in flight at a time, after every update_framework call
\* that returns success = true, the tag recorded in framework.lock is the tag
\* pinned on the framework line of requirements.txt (the call's target tag).
C38_LockMatchesManifest ==
    \A c \in Calls :
        Succeeded(c) =>
            /\ LockRecords(call[c].target_tag)
            /\ ManifestPins(call[c].target_tag)

\* the second of two updates has returned success after its tests passed, its
\* target given without the 'v', on a root whose first update had succeeded too
C38_Witness ==
    /\ pc[1] = "closed"
    /\ Succeeded(2)
    /\ call[2].target_version = V130
    /\ call[2].current_version = V110
    /\ HasEvent(2, "tests", TRUE)
    /\ LockRecords(<<"v">> \o V130)
    /\ ManifestPins(<<"v">> \o V130)

(***************************************************************************)
(* Properties of the request statistics (specification EndpointSpec).     *)
(***************************************************************************)
\* the step is the entry of a /chat request into its handler
ChatEnters ==
    \E r \in Reqs : agent.req[r].pc = "new" /\ agent'.req[r].pc = "processing"

\* request_count is zero exactly when last_request_time is absent, and a
\* request that entered the handler is counted whatever became of it
StatisticsConsistent ==
    /\ (agent.request_count = 0) <=> (agent.last_request_time = None)
    /\ \A r \in Reqs :
           agent.req[r].pc \in {"processing", "responded"} =>
               /\ agent.request_count >= 1
               /\ agent.last_request_time # None
               /\ agent.last_request_time[1] >= agent.req[r].entered_at[1]
    /\ agent.request_count =
           Cardinality({r \in Reqs : agent.req[r].pc \in {"processing", "responded"}})

\* a step changes the two fields only as the entry of a /chat request, which
\* adds one to the count and sets the time to the clock's
StatisticsStep ==
    /\ agent'.request_count >= agent.request_count
    /\ IF ChatEnters
       THEN /\ agent'.request_count = agent.request_count + 1
            /\ agent'.last_request_time = Some(agent.clock)
       ELSE /\ agent'.request_count = agent.request_count
            /\ agent'.last_request_time = agent.last_request_time

\* C39: in every reachable state of a running agent request_count is zero
\* exactly when last_request_time is absent; request_count never decreases;
\* both are updated by a /chat request even when its process_message fails
\* later; no other route (health, status, /fwk/*) changes either field.
C39_RequestStatistics == [](StatisticsConsistent) /\ [][StatisticsStep]_vars

\* a /chat request was answered 500 and is counted, /status has reported its
\* time, and an update, a listing and a clone have been made meanwhile
C39_Witness ==
    /\ agent.request_count = 1
    /\ agent.req[1].pc = "responded" /\ agent.req[1].response.status = 500
    /\ agent.req[2].pc = "rejected"
    /\ agent.last_request_time = Some(1)
    /\ pc[1] = "done"
    /\ listing.pc = "done"
    /\ Len(runs) = 2
    /\ runs[1].op = "/status" /\ runs[1].response.last_request = Some(1)
    /\ runs[2].op = "create_test_clone"
====
